---------------------------- MODULE Spec2Model ----------------------------
(***************************************************************************)
(* Model of the beancount_import_sources adapters: seven sources, each     *)
(* with a prepare(journal, results) that scans the ledger for transactions  *)
(* it imported earlier, synthesizes transactions from its files, reports    *)
(* the new ones as pending entries and the ledger transactions whose source *)
(* record is gone as invalid references.                                    *)
(*                                                                          *)
(* Python values are modelled as follows.  A dict is the sequence of its    *)
(* <<key, value>> items in insertion order (Python dicts iterate in         *)
(* insertion order).  A str that the code inspects character by character   *)
(* (relative paths, xlsx_dir) is the sequence of its characters.  A date is *)
(* its ordinal, a Decimal number is an integer count of cents.  Files are   *)
(* numbered 1..3, the numbering following the order of their resolved paths.*)
(* File 0, whose path sorts before the others, is the file under study: its *)
(* content is the variable record, which the second specification draws     *)
(* from the records a download of the source may hold.  The third          *)
(* specification takes record for the rows of a worksheet and hands them   *)
(* to MultiTableReader.read_tables.                                         *)
(***************************************************************************)
EXTENDS Integers, Sequences, FiniteSets, TLC

VARIABLES
    source,                 \* which Source class the instance is
    xlsx_dir,               \* WorkdayPayrollSource.xlsx_dir (<<>> for the others)
    supplied,               \* the filenames as handed to the constructor
    filenames,              \* self.json_filenames / csv_filenames / xlsx_filenames
    journal,                \* journal.all_entries
    pending,                \* results.pending_entries of the last prepare
    invalid,                \* results.invalid_references of the last prepare
    raised,                 \* the last prepare ended with an exception
    existing_transactions,  \* existing_transactions_by_* when prepare ended
    imported_transactions,  \* imported_transactions_by_* when prepare ended
    synthesized,            \* history: every transaction the last prepare built
    pendingOrigin,          \* history: where each pending entry came from
    prevPending,            \* history: pending of the prepare before the last
    prevInvalid,            \* history: invalid of the prepare before the last
    prevOrigin,             \* history: pendingOrigin of the prepare before
    prevSynthesized,        \* history: synthesized of the prepare before
    trail,                  \* history: what happened since the last prepare
    lastTrail,              \* history: trail at the moment of the last prepare
    removed,                \* history: the file taken out of the configuration
    edits,                  \* history: number of manual ledger edits so far
    record,                 \* the content of file 0, the file under study
    tables_by_name          \* what read_tables returned for the rows of record

vars == <<source, xlsx_dir, supplied, filenames, journal, pending, invalid,
          raised, existing_transactions, imported_transactions, synthesized,
          pendingOrigin, prevPending, prevInvalid, prevOrigin, prevSynthesized,
          trail, lastTrail, removed, edits, record, tables_by_name>>

---------------------------------------------------------------------------
(* Bounds of the model. *)

\* longest list of filenames handed to a constructor
MaxConfig == 2
\* manual edits of the ledger (entries added or deleted by hand) per behaviour
MaxEdits == 1
\* longest ledger
MaxJournal == 4
\* most records (lines, rows, tables, transactions) of the file under study
MaxRecords == 2
\* most rows of the worksheet handed to read_tables
MaxRows == 4

---------------------------------------------------------------------------
(* Python values. *)

\* Python's None (a record, so that it compares with dicts and transactions)
None == [py_none |-> TRUE]

\* an empty dict
EmptyDict == << >>

\* key in d
DictHas(d, k) == \E i \in 1..Len(d) : d[i][1] = k

\* d.get(k, default)
DictGet(d, k, default) ==
    IF DictHas(d, k)
    THEN d[CHOOSE i \in 1..Len(d) : d[i][1] = k][2]
    ELSE default

\* d[k] = v : an existing key keeps its place in the iteration order
DictSet(d, k, v) ==
    IF DictHas(d, k)
    THEN [i \in 1..Len(d) |-> IF d[i][1] = k THEN <<k, v>> ELSE d[i]]
    ELSE Append(d, <<k, v>>)

\* d.setdefault(k, []).append(x)
DictSetDefaultAppend(d, k, x) == DictSet(d, k, Append(DictGet(d, k, << >>), x))

\* s.startswith(prefix)
StartsWith(s, prefix) ==
    /\ Len(prefix) <= Len(s)
    /\ SubSeq(s, 1, Len(prefix)) = prefix

\* "meta and key in meta" / "meta is not None and key in meta"
MetaHas(meta, k) == meta # None /\ k \in DOMAIN meta

\* beancount's Amount
Amount(number, currency) == [number |-> number, currency |-> currency]

\* -amount
Neg(amount) == Amount(0 - amount.number, amount.currency)

\* beancount's Posting (cost, price and flag are always None)
Posting(account, units, meta) == [account |-> account, units |-> units, meta |-> meta]

\* beancount's Transaction (tags and links are always empty, flag always '*')
Transaction(meta, date, payee, narration, postings) ==
    [isTxn |-> TRUE, meta |-> meta, date |-> date, payee |-> payee,
     narration |-> narration, postings |-> postings]

\* any other directive of the ledger (Open, Balance, Note, ...)
Directive(meta, date) == [isTxn |-> FALSE, meta |-> meta, date |-> date]

\* beancount_import's ImportResult
ImportResult(date, entries) == [date |-> date, entries |-> entries, info |-> None]

\* beancount_import's InvalidSourceReference
InvalidSourceReference(num_extras, transaction_entries) ==
    [num_extras |-> num_extras, transaction_entries |-> transaction_entries]

\* beancount_import.matching.FIXME_ACCOUNT
FIXME_ACCOUNT == "Expenses:FIXME"

---------------------------------------------------------------------------
(* The files on disk and the paths of the configuration. *)

\* the files that exist, numbered in the order of their resolved paths
Files == 1..3

\* the basename of file f, one character
FileChar(f) == IF f = 0 THEN "0" ELSE <<"1", "2", "3">>[f]

\* the spellings of xlsx_dir a Workday instance may be configured with
XlsxDirs == {<<"w">>, <<".", "/", "w">>}

\* os.path.normpath of a relative directory: leading "./" components go
RECURSIVE NormPath(_)
NormPath(dir) ==
    IF StartsWith(dir, <<".", "/">>)
    THEN NormPath(SubSeq(dir, 3, Len(dir)))
    ELSE dir

\* os.path.relpath(filename, start=self.data_dir) of a Workday file, which
\* lies in os.path.join(data_dir, xlsx_dir) and was resolved by realpath
WorkdayRelPath(dir, f) == NormPath(dir) \o <<"/", FileChar(f)>>

\* os.path.relpath(filename, start=self.data_dir) of a file of the other
\* sources; the example configurations keep them in a directory below data_dir
RelPath(f) == <<"d", "/", FileChar(f)>>

\* sorted(l) for a list of at most MaxConfig + 1 file numbers
RECURSIVE Sorted(_)
Sorted(l) ==
    IF Len(l) <= 1 THEN l
    ELSE LET m == CHOOSE i \in 1..Len(l) : \A j \in 1..Len(l) : l[i] <= l[j]
             rest == [j \in 1..(Len(l) - 1) |-> IF j < m THEN l[j] ELSE l[j + 1]]
         IN  <<l[m]>> \o Sorted(rest)

\* what each step of a file's processing yields: a transaction to record
\* under its key (row: the record of the file it was built from) ...
Out(txn, key, row) == [raise |-> FALSE, txn |-> txn, key |-> key, row |-> row]

\* ... or an exception that ends prepare
Raise == [raise |-> TRUE]

\* the outcomes up to and including the first exception
RECURSIVE UntilRaise(_)
UntilRaise(outs) ==
    IF outs = << >> THEN << >>
    ELSE IF Head(outs).raise THEN <<Head(outs)>>
    ELSE <<Head(outs)>> \o UntilRaise(Tail(outs))

\* the concatenation of a sequence of sequences
RECURSIVE Flatten(_)
Flatten(ss) == IF ss = << >> THEN << >> ELSE Head(ss) \o Flatten(Tail(ss))

---------------------------------------------------------------------------
(* ADP payroll (adp_payroll_source.py). *)

\* the pay statements on disk: the third has no line with an amount
AdpFile(f) ==
    CASE f = 0 -> record
      [] f = 1 ->
           [payDate |-> 1,
            earnings |-> <<[earningCodeName |-> "Regular",
                            earningAmount |-> [amountValue |-> 100000, currencyCode |-> "USD"]]>>,
            deductions |-> <<[deductionCategoryCodeName |-> "Taxes",
                              CodeName |-> "Federal Income Tax",
                              deductionAmount |-> [amountValue |-> -5000, currencyCode |-> "USD"]]>>,
            memos |-> << >>]
      [] f = 2 ->
           [payDate |-> 2,
            earnings |-> <<[earningCodeName |-> "Regular",
                            earningAmount |-> [amountValue |-> 200000, currencyCode |-> "USD"]],
                           [earningCodeName |-> "Bonus", earningAmount |-> None]>>,
            deductions |-> <<[deductionCategoryCodeName |-> "Retirement",
                              CodeName |-> "401K Plan", deductionAmount |-> None]>>,
            memos |-> <<[codeValue |-> "grouptermlife", shortName |-> "Group Term Life",
                         memoAmount |-> [amountValue |-> 1000, currencyCode |-> "USD"]],
                        [codeValue |-> "other", shortName |-> "Other",
                         memoAmount |-> [amountValue |-> 700, currencyCode |-> "USD"]]>>]
      [] OTHER ->
           [payDate |-> 2,
            earnings |-> <<[earningCodeName |-> "Regular", earningAmount |-> None]>>,
            deductions |-> << >>,
            memos |-> <<[codeValue |-> "erhsa", shortName |-> "ER HSA", memoAmount |-> None]>>]

\* the configured earning_account_map, keyed by the code after 'Earning: '
earning_account_map ==
    [Regular |-> "Income:Hooli:Salary:Base", Bonus |-> "Income:Hooli:Salary:Bonus"]

\* the configured deduction_code_and_date_to_account, as the dict it indexes
deduction_code_to_account ==
    (<<"Taxes", ": ", "Federal Income Tax">> :> "Expenses:Tax:Income:Federal")
    @@ (<<"Retirement", ": ", "401K Plan">> :> "Assets:Hooli401k:Cash")

\* the configured memo_map: code -> (income account, expense account)
memo_map ==
    [grouptermlife |-> <<"Income:Hooli:GroupTermLife", "Expenses:LifeInsurance:HooliGroupTermLife">>,
     erhsa |-> <<"Income:Hooli:HSAContribution", "Assets:HooliHSA:Cash">>]

\* AdpPayrollSource.to_amount
AdpToAmount(json_amount) == Amount(json_amount.amountValue, json_amount.currencyCode)

\* a faulty variant of AdpEarningPostings, which posts the earning as ADP
\* reports it, without flipping its sign
RECURSIVE AdpEarningPostingsUnflipped(_)
AdpEarningPostingsUnflipped(earnings) ==
    IF earnings = << >> THEN << >>
    ELSE LET earning == Head(earnings)
             rest == AdpEarningPostingsUnflipped(Tail(earnings))
         IN  IF earning.earningAmount = None THEN rest
             ELSE IF earning.earningCodeName \notin DOMAIN earning_account_map THEN <<Raise>>
             ELSE <<Posting(earning_account_map[earning.earningCodeName],
                            AdpToAmount(earning.earningAmount),
                            [adp_payroll_posting_description |->
                                 <<"Earning: ", earning.earningCodeName>>])>> \o rest

\* the postings of the earnings loop; <<Raise>> stands for the KeyError of a
\* code that earning_account_map lacks
RECURSIVE AdpEarningPostings(_)
AdpEarningPostings(earnings) ==
    IF earnings = << >> THEN << >>
    ELSE LET earning == Head(earnings)
             rest == AdpEarningPostings(Tail(earnings))
         IN  IF earning.earningAmount = None THEN rest
             ELSE IF earning.earningCodeName \notin DOMAIN earning_account_map THEN <<Raise>>
             ELSE <<Posting(earning_account_map[earning.earningCodeName],
                            Neg(AdpToAmount(earning.earningAmount)),
                            [adp_payroll_posting_description |->
                                 <<"Earning: ", earning.earningCodeName>>])>> \o rest

\* the postings of the deductions loop
RECURSIVE AdpDeductionPostings(_)
AdpDeductionPostings(deductions) ==
    IF deductions = << >> THEN << >>
    ELSE LET deduction == Head(deductions)
             rest == AdpDeductionPostings(Tail(deductions))
             deduction_code_name ==
                 <<deduction.deductionCategoryCodeName, ": ", deduction.CodeName>>
         IN  IF deduction.deductionAmount = None THEN rest
             ELSE IF deduction_code_name \notin DOMAIN deduction_code_to_account
                  THEN <<Raise>>
             ELSE <<Posting(deduction_code_to_account[deduction_code_name],
                            Neg(AdpToAmount(deduction.deductionAmount)),
                            [adp_payroll_posting_description |-> deduction_code_name])>>
                  \o rest

\* the postings of the memos loop: two per mapped memo that has an amount
RECURSIVE AdpMemoPostings(_)
AdpMemoPostings(memos) ==
    IF memos = << >> THEN << >>
    ELSE LET memo == Head(memos)
             rest == AdpMemoPostings(Tail(memos))
         IN  IF memo.codeValue \notin DOMAIN memo_map THEN rest
             ELSE IF memo.memoAmount = None THEN rest
             ELSE <<Posting(memo_map[memo.codeValue][1], Neg(AdpToAmount(memo.memoAmount)),
                            [adp_payroll_posting_description |-> memo.shortName]),
                    Posting(memo_map[memo.codeValue][2], AdpToAmount(memo.memoAmount),
                            [adp_payroll_posting_description |-> memo.shortName])>> \o rest

\* one pass of the loop over self.json_filenames: the transaction of file f,
\* recorded only when it has a posting
AdpProcessFile(f) ==
    LET data == AdpFile(f)
        relative_filename == RelPath(f)
        postings == AdpEarningPostings(data.earnings)
                    \o AdpDeductionPostings(data.deductions)
                    \o AdpMemoPostings(data.memos)
        txn == Transaction([adp_payroll_source_file |-> relative_filename],
                           data.payDate, "Hooli", "Payroll", postings)
    IN  IF \E i \in 1..Len(postings) : postings[i] = Raise THEN <<Raise>>
        ELSE IF Len(postings) > 0 THEN <<Out(txn, relative_filename, 1)>>
        ELSE << >>

\* a faulty variant of AdpEntryKeys, which does not skip the directives that
\* are no transactions
AdpEntryKeysOfDirectives(entry) ==
    IF MetaHas(entry.meta, "adp_payroll_source_file")
    THEN <<entry.meta.adp_payroll_source_file>>
    ELSE << >>

\* the keys an entry of the ledger is filed under by the scan of the journal
AdpEntryKeys(entry) ==
    IF ~entry.isTxn THEN << >>
    ELSE IF MetaHas(entry.meta, "adp_payroll_source_file")
         THEN <<entry.meta.adp_payroll_source_file>>
         ELSE << >>

---------------------------------------------------------------------------
(* Cash App (cashapp_csv_source.py). *)

\* Decimal(row[4].replace('$', '')) in cents, for the amounts that occur
CashAppDecimal(s) ==
    CASE s = "-$5.00" -> -500
      [] s = "$7.50" -> 750
      [] OTHER -> 2000

\* a row of the CSV export, by the columns prepare reads
CashAppRow(id, date, type, amount, fee, notes, payee, account) ==
    [id |-> id, date |-> date, type |-> type, currency |-> "USD", amount |-> amount,
     fee |-> fee, notes |-> notes, payee |-> payee, account |-> account]

\* the header row of the CSV export
CashAppHeader ==
    CashAppRow("Transaction ID", 0, "Transaction Type", "Amount", "Fee", << >>,
               << >>, "Account")

\* the exports on disk, header row first; notes and payee names are
\* lists of character codes.
\* The third export ends with a row of a type prepare does not know.
CashAppFile(f) ==
    CASE f = 0 -> <<CashAppHeader>> \o record
      [] f = 1 ->
           <<CashAppHeader,
             CashAppRow("id1", 1, "Sent P2P", "-$5.00", "$0", <<108, 10, 233, 33>>,
                        <<66, 111, 98, 233>>, "Visa Debit 1234")>>
      [] f = 2 ->
           <<CashAppHeader,
             CashAppRow("id2", 1, "Received P2P", "$7.50", "$0", <<104, 105>>,
                        <<67, 97, 114>>, "Your Cash"),
             CashAppRow("id3", 2, "Cash out", "$20.00", "$0", << >>, << >>, "Your Cash")>>
      [] OTHER ->
           <<CashAppHeader,
             CashAppRow("id3", 2, "Cash out", "$20.00", "$0", << >>, << >>, "Your Cash"),
             CashAppRow("id4", 2, "Boost", "$7.50", "$0", << >>, <<83>>, "Your Cash")>>

\* the configured cashapp_account
cashapp_account == "Assets:CashApp"

\* sanitize of both peer-payment sources: re.sub(r'[^ -~]+', '', string)
Sanitize(string) == SelectSeq(string, LAMBDA c : c >= 32 /\ c <= 126)

\* a faulty variant of CashAppPaymentTransaction, which puts the id into the
\* transaction's metadata instead of the posting's
CashAppPaymentTransactionKeyedAbove(txn_id, date, txn_type, payee, notes, amount) ==
    Transaction([cashapp_transaction_id |-> txn_id], date, payee,
                <<"CashApp payment: ", Sanitize(notes)>>,
                <<Posting(cashapp_account, amount,
                          [date |-> date, cashapp_payee |-> payee, cashapp_type |-> txn_type,
                           cashapp_description |-> Sanitize(notes)]),
                  Posting(FIXME_ACCOUNT, Neg(amount), << >>)>>)

\* CashAppCsvSource.make_payment_transaction, up to record_transaction
CashAppPaymentTransaction(txn_id, date, txn_type, payee, notes, amount) ==
    Transaction(<< >>, date, payee, <<"CashApp payment: ", Sanitize(notes)>>,
                <<Posting(cashapp_account, amount,
                          [date |-> date, cashapp_transaction_id |-> txn_id,
                           cashapp_payee |-> payee, cashapp_type |-> txn_type,
                           cashapp_description |-> Sanitize(notes)]),
                  Posting(FIXME_ACCOUNT, Neg(amount), << >>)>>)

\* CashAppCsvSource.make_transfer_transaction when called for a payment
CashAppTransferForPayment(txn_id, date, transfer_to, amount, for_payment_notes, for_payee) ==
    Transaction(<< >>, date, << >>, <<"CashApp transfer to/from ", transfer_to>>,
                <<Posting(cashapp_account, amount,
                          [date |-> date, cashapp_transaction_id |-> txn_id,
                           cashapp_type |-> "transfer", cashapp_payee |-> Sanitize(for_payee),
                           cashapp_description |-> Sanitize(for_payment_notes)]),
                  Posting(FIXME_ACCOUNT, Neg(amount), << >>)>>)

\* CashAppCsvSource.make_transfer_transaction when called for a cash out
CashAppTransferTransaction(txn_id, date, transfer_to, amount) ==
    Transaction(<< >>, date, << >>, <<"CashApp transfer to/from ", transfer_to>>,
                <<Posting(cashapp_account, amount,
                          [date |-> date, cashapp_transaction_id |-> txn_id,
                           cashapp_type |-> "transfer"]),
                  Posting(FIXME_ACCOUNT, Neg(amount), << >>)>>)

\* a faulty variant of CashAppProcessRow, which skips a row of a type it
\* does not know and goes on with the next
CashAppProcessRowSkipping(row, r) ==
    LET amount == Amount(CashAppDecimal(row.amount), row.currency)
    IN  IF row.fee # "$0" THEN <<Raise>>
        ELSE IF row.type = "Received P2P" \/ row.type = "Sent P2P"
        THEN (IF row.account # "Your Cash"
              THEN <<Out(CashAppTransferForPayment(row.id, row.date, row.account, Neg(amount),
                                                   row.notes, row.payee), row.id, r)>>
              ELSE << >>)
             \o <<Out(CashAppPaymentTransaction(row.id, row.date, row.type, row.payee,
                                                row.notes, amount), row.id, r)>>
        ELSE IF row.type = "Cash out"
        THEN <<Out(CashAppTransferTransaction(row.id, row.date, "bank", amount), row.id, r)>>
        ELSE << >>

\* the body of the loop over the rows of a file, for row number r
CashAppProcessRow(row, r) ==
    LET amount == Amount(CashAppDecimal(row.amount), row.currency)
    IN  IF row.fee # "$0" THEN <<Raise>>
        ELSE IF row.type = "Received P2P" \/ row.type = "Sent P2P"
        THEN (IF row.account # "Your Cash"
              THEN <<Out(CashAppTransferForPayment(row.id, row.date, row.account, Neg(amount),
                                                   row.notes, row.payee), row.id, r)>>
              ELSE << >>)
             \o <<Out(CashAppPaymentTransaction(row.id, row.date, row.type, row.payee,
                                                row.notes, amount), row.id, r)>>
        ELSE IF row.type = "Cash out"
        THEN <<Out(CashAppTransferTransaction(row.id, row.date, "bank", amount), row.id, r)>>
        ELSE <<Raise>>

\* one pass of the loop over self.csv_filenames
CashAppProcessFile(f) ==
    LET rows == Tail(CashAppFile(f))
    IN  UntilRaise(Flatten([r \in 1..Len(rows) |-> CashAppProcessRow(rows[r], r)]))

\* the keys an entry of the ledger is filed under by the scan of the journal:
\* once for every posting that carries the id
RECURSIVE CashAppPostingKeys(_)
CashAppPostingKeys(postings) ==
    IF postings = << >> THEN << >>
    ELSE (IF MetaHas(Head(postings).meta, "cashapp_transaction_id")
          THEN <<Head(postings).meta.cashapp_transaction_id>>
          ELSE << >>) \o CashAppPostingKeys(Tail(postings))

\* a faulty variant of CashAppEntryKeys, which files a transaction once,
\* under the id of its first posting that carries one
CashAppEntryKeysOnce(entry) ==
    IF ~entry.isTxn \/ CashAppPostingKeys(entry.postings) = << >> THEN << >>
    ELSE <<Head(CashAppPostingKeys(entry.postings))>>

\* the scan of one entry of the journal
CashAppEntryKeys(entry) ==
    IF ~entry.isTxn THEN << >> ELSE CashAppPostingKeys(entry.postings)

---------------------------------------------------------------------------
(* The reader of multi-section worksheets (multitable_reader.py). *)

\* a cell of a worksheet that holds a value (an empty cell is None)
Cell(value) == [value |-> value]

\* MultiTableReader._drop_trailing_nones: the list is shortened in place, so
\* the caller's row loses its trailing Nones too
RECURSIVE DropTrailingNones(_)
DropTrailingNones(l) ==
    IF Len(l) > 0 /\ l[Len(l)] = None THEN DropTrailingNones(SubSeq(l, 1, Len(l) - 1))
    ELSE l

\* MultiTableReader._is_section_title
IsSectionTitle(row) == Len(DropTrailingNones(row)) = 1

\* MultiTableReader._get_rows: every row cut or filled up with None to the
\* number of columns
GetRows(data, columns) ==
    [r \in 1..Len(data) |->
        [i \in 1..Len(columns) |-> IF i <= Len(data[r]) THEN data[r][i] ELSE None]]

\* the first loop of read_tables from row r on: cur_table_name is << >> for
\* None and <<name>> for a name; a row that is no title while no table is
\* open raises KeyError
RECURSIVE ReadTablesGroup(_, _, _, _)
ReadTablesGroup(rows, r, cur_table_name, grouped_rows) ==
    IF r > Len(rows) THEN [raise |-> FALSE, grouped_rows |-> grouped_rows]
    ELSE IF IsSectionTitle(rows[r])
    THEN ReadTablesGroup(rows, r + 1, <<rows[r][1].value>>,
                         DictSet(grouped_rows, rows[r][1].value, << >>))
    ELSE IF cur_table_name = << >> THEN Raise
    ELSE ReadTablesGroup(rows, r + 1, cur_table_name,
                         DictSet(grouped_rows, cur_table_name[1],
                                 Append(DictGet(grouped_rows, cur_table_name[1], << >>),
                                        DropTrailingNones(rows[r]))))

\* the DataFrame of one table: empty for a table without rows, else the
\* first row names the columns and the others are the data
ReadTablesFrame(rows) ==
    IF Len(rows) = 0 THEN [empty |-> TRUE, columns |-> << >>, data |-> << >>]
    ELSE [empty |-> FALSE, columns |-> rows[1], data |-> GetRows(Tail(rows), rows[1])]

\* the second loop of read_tables
ReadTablesResult(grouped_rows) ==
    [i \in 1..Len(grouped_rows) |-> <<grouped_rows[i][1], ReadTablesFrame(grouped_rows[i][2])>>]

\* MultiTableReader.read_tables
read_tables(rows) ==
    IF ReadTablesGroup(rows, 1, << >>, EmptyDict).raise THEN Raise
    ELSE [raise |-> FALSE,
          tables |-> ReadTablesResult(ReadTablesGroup(rows, 1, << >>, EmptyDict).grouped_rows)]

---------------------------------------------------------------------------
(* Workday payroll (workday_payroll_source.py). *)

\* a row of a table of the payslip: the item of its first column and its
\* amount cell, a float in thousandths of the currency unit or NaN
WorkdayRow(item, nan, amount) == [item |-> item, nan |-> nan, amount |-> amount]

\* the payslips on disk, as the tables MultiTableReader.read_tables returns:
\* amount_column is the amount column the table has, if any.  The third
\* payslip has no amount that is a number.
WorkdayFile(f) ==
    CASE f = 0 -> [checkDate |-> 1, tables |-> record]
      [] f = 1 ->
           [checkDate |-> 1,
            tables |-> <<[name |-> "Payslip Information", amount_column |-> "none",
                          currency |-> "USD", rows |-> <<WorkdayRow("Hooli", TRUE, 0)>>],
                         [name |-> "Earnings", amount_column |-> "Amount",
                          currency |-> "USD", rows |-> <<WorkdayRow("Salary", FALSE, 100000)>>],
                         [name |-> "Employee Taxes", amount_column |-> "Amount",
                          currency |-> "USD", rows |-> <<WorkdayRow("Federal", FALSE, 5125)>>]>>]
      [] f = 2 ->
           [checkDate |-> 2,
            tables |-> <<[name |-> "Earnings", amount_column |-> "Amount in Pay Group Currency",
                          currency |-> "EUR", rows |-> <<WorkdayRow("Salary", FALSE, -200000)>>],
                         [name |-> "Employer Paid Benefits", amount_column |-> "Amount",
                          currency |-> "USD", rows |-> <<WorkdayRow("Life", FALSE, 1000),
                                                         WorkdayRow("Total", TRUE, 0)>>]>>]
      [] OTHER ->
           [checkDate |-> 2,
            tables |-> <<[name |-> "Earnings", amount_column |-> "Amount",
                          currency |-> "USD", rows |-> <<WorkdayRow("Salary", TRUE, 0)>>],
                         [name |-> "Taxable Wages", amount_column |-> "none",
                          currency |-> "USD", rows |-> <<WorkdayRow("Wages", FALSE, 100000)>>]>>]

\* the configured item_date_to_account_by_section: the accounts each
\* section's callback returns (for every item and date); an account name
\* is the list of its components, 'Income:Hooli:Salary' being
\* <<"Income", "Hooli", "Salary">>
item_date_to_account_by_section ==
    ("Earnings" :> << <<"Income", "Hooli", "Salary">> >>)
    @@ ("Employee Taxes" :> << <<"Expenses", "Tax", "Income">> >>)
    @@ ("Employer Paid Benefits" :> << <<"Income", "Hooli", "Benefits">>,
                                       <<"Expenses", "Benefits">> >>)
    @@ ("Taxable Wages" :> << <<"Income", "Hooli", "Taxable">> >>)
    @@ ("Withholding" :> << <<"Liabilities", "Hooli", "Withheld">> >>)
    @@ ("Stock" :> << <<"Equity", "Hooli", "Stock">> >>)
    @@ ("Net Pay" :> << <<"Assets", "Checking">> >>)

\* any(account.startswith(prefix) for prefix in prefixes), each prefix being
\* a first component and its colon
WorkdayAccountIn(account, prefixes) ==
    \E p \in prefixes : Len(account) > 1 /\ account[1] = p

\* round(Decimal(amount), 2): thousandths to cents, ties to the even cent
RoundCents(thousandths) ==
    LET sign == IF thousandths < 0 THEN -1 ELSE 1
        abs == sign * thousandths
        q == abs \div 10
        r == abs % 10
    IN  sign * (IF r > 5 \/ (r = 5 /\ q % 2 = 1) THEN q + 1 ELSE q)

\* a faulty variant of WorkdayToAmount, which flips the amounts of Income,
\* Equity and Liabilities accounts only
WorkdayToAmountIncomeOnly(row, account, currency) ==
    IF row.nan THEN None
    ELSE Amount(RoundCents(IF row.amount > 0
                              /\ WorkdayAccountIn(account, {"Income", "Equity", "Liabilities"})
                           THEN 0 - row.amount ELSE row.amount), "USD")

\* WorkdayPayrollSource._to_amount (None for NaN); the currency handed in
\* is not used
WorkdayToAmount(row, account, currency) ==
    IF row.nan THEN None
    ELSE LET a1 == IF row.amount > 0
                      /\ WorkdayAccountIn(account, {"Income", "Equity", "Liabilities"})
                   THEN 0 - row.amount ELSE row.amount
             a2 == IF a1 < 0 /\ WorkdayAccountIn(account, {"Expenses", "Assets"})
                   THEN 0 - a1 ELSE a1
         IN  Amount(RoundCents(a2), "USD")

\* the postings of one row: one for each account of the callback
WorkdayRowPostings(table, row) ==
    LET accounts == item_date_to_account_by_section[table.name]
        one(account) ==
            IF table.amount_column = "none" THEN << >>
            ELSE LET amount == WorkdayToAmount(row, account, table.currency)
                 IN  IF amount = None THEN << >>
                     ELSE <<Posting(account, amount,
                                    [workday_payroll_posting_description |->
                                         <<table.name, ": ", row.item>>])>>
    IN  Flatten([i \in 1..Len(accounts) |-> one(accounts[i])])

\* the postings of one table: none for a section that is not configured
WorkdayTablePostings(table) ==
    IF table.name \notin DOMAIN item_date_to_account_by_section THEN << >>
    ELSE Flatten([i \in 1..Len(table.rows) |-> WorkdayRowPostings(table, table.rows[i])])

\* one pass of the loop over self.xlsx_filenames
WorkdayProcessFile(dir, f) ==
    LET data == WorkdayFile(f)
        relative_filename == WorkdayRelPath(dir, f)
        postings == Flatten([i \in 1..Len(data.tables) |-> WorkdayTablePostings(data.tables[i])])
        txn == Transaction([workday_payroll_source_file |-> relative_filename],
                           data.checkDate, "Hooli", "Payroll", postings)
    IN  IF Len(postings) > 0 THEN <<Out(txn, relative_filename, 1)>> ELSE << >>

\* the scan of one entry of the journal: files outside xlsx_dir are ignored
WorkdayEntryKeys(dir, entry) ==
    IF ~entry.isTxn THEN << >>
    ELSE IF MetaHas(entry.meta, "workday_payroll_source_file")
            /\ StartsWith(entry.meta.workday_payroll_source_file, dir)
         THEN <<entry.meta.workday_payroll_source_file>>
         ELSE << >>

---------------------------------------------------------------------------
(* Bank of America mortgage statements (boa_mortgage_csv_source.py). *)

\* Decimal(s.replace('$', '').replace(',', '').strip()) in cents, for the
\* amounts that occur
BoaDecimal(s) ==
    CASE s = "$1,500.00" -> 150000
      [] s = "$1,000.00" -> 100000
      [] s = "$500.00" -> 50000
      [] s = "$250.00" -> 25000
      [] OTHER -> 0

\* BoAMortgageCsvSource._to_amount
BoaToAmount(s) == Amount(IF s = "--" THEN 0 ELSE BoaDecimal(s), "USD")

\* a row of the CSV statement, by the columns prepare reads
BoaRow(date, description, payment, principal, interest, escrow, fees) ==
    [date |-> date, description |-> description, payment |-> payment,
     principal |-> principal, interest |-> interest, escrow |-> escrow, fees |-> fees]

\* the header row of the CSV statement
BoaHeader == BoaRow(0, "Description", "Payment", "Principal", "Interest", "Escrow", "Fees")

\* the statements on disk, header row first: the first has two payments of
\* one day under one description, the third has no row
BoaFile(f) ==
    CASE f = 1 ->
           <<BoaHeader,
             BoaRow(1, "PAYMENT", "$1,500.00", "$500.00", "$1,000.00", "--", "--"),
             BoaRow(1, "PAYMENT", "$250.00", "$250.00", "--", "--", "$0.00")>>
      [] f = 2 ->
           <<BoaHeader,
             BoaRow(2, "PAYMENT", "$1,500.00", "$500.00", "$1,000.00", "--", "--"),
             BoaRow(2, "ESCROW DISBURSEMENT", "--", "--", "--", "$250.00", "--")>>
      [] OTHER -> <<BoaHeader>>

\* BoAMortgageCsvSource._get_transaction_key
BoaTransactionKey(txn) ==
    <<txn.meta.boa_mortgage_csv_source_file, txn.date,
      txn.meta.boa_mortgage_csv_source_description>>

\* the posting of one amount column
BoaPosting(account, units, relative_filename) ==
    Posting(account, units, [boa_mortgage_csv_source_file |-> relative_filename])

\* the body of the loop over the rows of a file, for row number r
BoaProcessRow(row, relative_filename, r) ==
    LET payment_amount == BoaToAmount(row.payment)
        principal_amount == BoaToAmount(row.principal)
        interest_amount == BoaToAmount(row.interest)
        escrow_amount == BoaToAmount(row.escrow)
        fees_amount == BoaToAmount(row.fees)
        opt(account, amount) ==
            IF amount.number # 0 THEN <<BoaPosting(account, amount, relative_filename)>>
            ELSE << >>
        txn == Transaction(
                   [boa_mortgage_csv_source_file |-> relative_filename,
                    boa_mortgage_csv_source_description |-> row.description],
                   row.date, "Bank of America", row.description,
                   <<BoaPosting("Assets:Checking", Neg(payment_amount), relative_filename)>>
                   \o opt("Liabilities:Mortgage", principal_amount)
                   \o opt("Expenses:Mortgage:Interest", interest_amount)
                   \o opt("Assets:Mortgage:Escrow", escrow_amount)
                   \o opt("Expenses:Mortgage:Fees", fees_amount))
    IN  Out(txn, BoaTransactionKey(txn), r)

\* one pass of the loop over self.csv_filenames
BoaProcessFile(f) ==
    LET rows == Tail(BoaFile(f))
    IN  [r \in 1..Len(rows) |-> BoaProcessRow(rows[r], RelPath(f), r)]

\* the scan of one entry of the journal
BoaEntryKeys(entry) ==
    IF ~entry.isTxn THEN << >>
    ELSE IF MetaHas(entry.meta, "boa_mortgage_csv_source_file")
         THEN <<BoaTransactionKey(entry)>>
         ELSE << >>

\* the scan's _get_transaction_key raises KeyError on a transaction that has
\* the file in its metadata but no description
BoaScanRaises(entry) ==
    /\ entry.isTxn
    /\ MetaHas(entry.meta, "boa_mortgage_csv_source_file")
    /\ "boa_mortgage_csv_source_description" \notin DOMAIN entry.meta

---------------------------------------------------------------------------
(* Emburse Chrome River expense reports (emburse_chrome_river_source.py). *)

\* a row of the CSV export, by the columns prepare reads (amount in cents)
EmburseRow(report_name, transaction_date, expense_type, amount, approval_date, business_purpose, report_id) ==
    [report_name |-> report_name, transaction_date |-> transaction_date,
     expense_type |-> expense_type, amount |-> Amount(amount, "USD"),
     approval_date |-> approval_date, business_purpose |-> business_purpose,
     report_id |-> report_id]

\* the header row and the two rows that close every export
EmburseFiller == EmburseRow("", 0, "", 0, 0, "", "")

\* the exports on disk: report R1 is in the first and in the second
EmburseFile(f) ==
    CASE f = 0 -> <<EmburseFiller>> \o record \o <<EmburseFiller, EmburseFiller>>
      [] f = 1 ->
           <<EmburseFiller,
             EmburseRow("Trip", 1, "Airfare", 30000, 1, "Conference", "R1"),
             EmburseRow("Books", 1, "Books", 4000, 2, "Training", "R2"),
             EmburseRow("Trip", 1, "Hotel", 20000, 1, "Conference", "R1"),
             EmburseFiller, EmburseFiller>>
      [] f = 2 ->
           <<EmburseFiller,
             EmburseRow("Trip", 1, "Airfare", 30000, 1, "Conference", "R1"),
             EmburseFiller, EmburseFiller>>
      [] OTHER -> <<EmburseFiller, EmburseFiller, EmburseFiller>>

\* expense_items_by_report_id: the rows grouped by report id, each group
\* with the number of its first row
RECURSIVE EmburseGroup(_, _, _)
EmburseGroup(rows, r, d) ==
    IF r > Len(rows) THEN d
    ELSE LET old == DictGet(d, rows[r].report_id, [first |-> r, items |-> << >>])
         IN  EmburseGroup(rows, r + 1,
                          DictSet(d, rows[r].report_id,
                                  [old EXCEPT !.items = Append(old.items, rows[r])]))

\* the two postings of one expense item
EmburseItemPostings(expense_item) ==
    <<Posting("Expenses:FIXME", Neg(expense_item.amount),
              [emburse_chrome_river_expense_type |-> expense_item.expense_type,
               emburse_chrome_river_business_purpose |-> expense_item.business_purpose,
               emburse_chrome_river_transaction_date |-> expense_item.transaction_date]),
      Posting("Assets:Receivable:Hooli", expense_item.amount, << >>)>>

\* the transaction of one expense report
EmburseReportTransaction(relative_filename, expense_items) ==
    Transaction([emburse_chrome_river_source_file |-> relative_filename,
                 emburse_chrome_river_report_id |-> expense_items[1].report_id,
                 emburse_chrome_river_report_name |-> expense_items[1].report_name],
                expense_items[1].approval_date, "Hooli",
                <<"Expense report: ", expense_items[1].report_name>>,
                Flatten([i \in 1..Len(expense_items) |-> EmburseItemPostings(expense_items[i])]))

\* one pass of the loop over self.csv_filenames
EmburseProcessFile(f) ==
    LET all == EmburseFile(f)
        rows == SubSeq(all, 2, Len(all) - 2)
        groups == EmburseGroup(rows, 1, EmptyDict)
    IN  [g \in 1..Len(groups) |->
            Out(EmburseReportTransaction(RelPath(f), groups[g][2].items),
                groups[g][1], groups[g][2].first)]

\* the scan of one entry of the journal
EmburseEntryKeys(entry) ==
    IF ~entry.isTxn THEN << >>
    ELSE IF MetaHas(entry.meta, "emburse_chrome_river_report_id")
         THEN <<entry.meta.emburse_chrome_river_report_id>>
         ELSE << >>

---------------------------------------------------------------------------
(* Venmo (venmo_json_source.py). *)

\* the configured self_username and venmo_assets_account
self_username == <<74, 68>>
venmo_assets_account == "Assets:Venmo"

\* prepare's local variables payee and amount_coef before any statement has
\* assigned them
VenmoUnbound ==
    [payee |-> None, payee_bound |-> FALSE, amount_coef |-> 0, coef_bound |-> FALSE]

\* a Venmo user; user names and display names are lists of character codes
VenmoUser(username, display_name) == [username |-> username, display_name |-> display_name]

\* a Venmo user whose display_name is None: get_user_info takes an attribute
\* that is None for one that is missing, so the record leaves it out
VenmoUserNoName(username) == [username |-> username]

\* a payment: the actor is a user, the target wraps its user
VenmoPayment(actor, target, action, note, amount) ==
    [actor |-> actor, target |-> [user |-> target], action |-> action,
     note |-> note, amount |-> amount]

\* an element of data.transactions: payment is transaction['payment'] or
\* transaction['refund']['payment'], name the destination's or merchant's
VenmoTransaction(id, date, type, payment, funding_source, amount, note, name) ==
    [id |-> id, date |-> date, type |-> type, payment |-> payment,
     funding_source |-> funding_source, amount |-> amount, note |-> note, name |-> name]

\* the users of the files
VenmoMe == VenmoUser(<<74, 68>>, <<74, 111, 104, 110>>)
VenmoBob == VenmoUser(<<66>>, <<66, 111, 98, 233>>)
VenmoCarol == VenmoUserNoName(<<67>>)
VenmoDave == VenmoUser(<<68>>, <<68, 97, 118, 101>>)

\* the downloads on disk.  The third holds a payment between two other
\* users and ends with a transaction of a type prepare does not know.
VenmoFile(f) ==
    CASE f = 0 -> record
      [] f = 1 ->
           <<VenmoTransaction("v1", 1, "payment",
                 VenmoPayment(VenmoMe, VenmoBob, "pay", <<108, 10, 233, 33>>, 500),
                 [type |-> "bank", name |-> "Checking"], 500, << >>, "")>>
      [] f = 2 ->
           <<VenmoTransaction("v2", 1, "payment",
                 VenmoPayment(VenmoCarol, VenmoMe, "pay", <<104, 105>>, 750),
                 None, 750, << >>, ""),
             VenmoTransaction("v3", 2, "transfer", None, None, 2000, << >>, "Checking")>>
      [] OTHER ->
           <<VenmoTransaction("v6", 2, "disbursement", None, None, 300, <<114>>,
                 VenmoUser(<<83>>, <<83, 104, 111, 112>>)),
             VenmoTransaction("v4", 2, "refund",
                 VenmoPayment(VenmoCarol, VenmoDave, "pay", <<120>>, 900),
                 None, 900, << >>, ""),
             VenmoTransaction("v5", 2, "authorization", None, None, 100, << >>, "")>>

\* the characters of '(unknown)'
VenmoUnknown == <<40, 117, 110, 107, 110, 111, 119, 110, 41>>

\* VenmoJsonSource.get_user_info
RECURSIVE VenmoUserInfoOf(_, _)
VenmoUserInfoOf(d, attrs) ==
    IF attrs = << >> THEN VenmoUnknown
    ELSE IF Head(attrs) \in DOMAIN d THEN d[Head(attrs)]
    ELSE VenmoUserInfoOf(d, Tail(attrs))

\* get_user_info's choice between actor['user'] and actor
VenmoUserInfo(actor, attrs) ==
    VenmoUserInfoOf(IF "user" \in DOMAIN actor THEN actor.user ELSE actor, attrs)

\* VenmoJsonSource.to_amount
VenmoToAmount(json_amount) == Amount(json_amount, "USD")

\* a faulty variant of VenmoPaymentTransaction, whose second posting repeats
\* the amount of the first
VenmoPaymentTransactionUnbalanced(transaction, payment, payee, amount_coef) ==
    Transaction(<< >>, transaction.date, VenmoUserInfo(payee, <<"display_name">>),
                <<"Venmo ", transaction.type, ": ", Sanitize(payment.note)>>,
                <<Posting(venmo_assets_account, VenmoToAmount(amount_coef * payment.amount),
                          [venmo_transaction_id |-> transaction.id,
                           venmo_payee |-> VenmoUserInfo(payee, <<"username", "display_name">>),
                           venmo_type |-> payment.action,
                           venmo_description |-> Sanitize(payment.note)]),
                  Posting(FIXME_ACCOUNT, VenmoToAmount(amount_coef * payment.amount), << >>)>>)

\* VenmoJsonSource.make_payment_transaction, up to record_transaction
VenmoPaymentTransaction(transaction, payment, payee, amount_coef) ==
    Transaction(<< >>, transaction.date, VenmoUserInfo(payee, <<"display_name">>),
                <<"Venmo ", transaction.type, ": ", Sanitize(payment.note)>>,
                <<Posting(venmo_assets_account, VenmoToAmount(amount_coef * payment.amount),
                          [venmo_transaction_id |-> transaction.id,
                           venmo_payee |-> VenmoUserInfo(payee, <<"username", "display_name">>),
                           venmo_type |-> payment.action,
                           venmo_description |-> Sanitize(payment.note)]),
                  Posting(FIXME_ACCOUNT, VenmoToAmount((0 - amount_coef) * payment.amount),
                          << >>)>>)

\* a faulty variant of VenmoTransferForPayment, which moves the wallet the
\* way the payment does
VenmoTransferForPaymentSameSign(transaction, transfer_to, amount_coef, for_payment, for_payee) ==
    Transaction(<< >>, transaction.date, << >>, <<"Venmo transfer to ", transfer_to>>,
                <<Posting(venmo_assets_account,
                          VenmoToAmount((0 - amount_coef) * transaction.amount),
                          [venmo_transaction_id |-> transaction.id,
                           venmo_type |-> "transfer",
                           venmo_payee |-> VenmoUserInfo(for_payee, <<"username", "display_name">>),
                           venmo_description |-> Sanitize(for_payment.note)]),
                  Posting(FIXME_ACCOUNT, VenmoToAmount(amount_coef * transaction.amount),
                          << >>)>>)

\* VenmoJsonSource.make_transfer_transaction when called for a payment
VenmoTransferForPayment(transaction, transfer_to, amount_coef, for_payment, for_payee) ==
    Transaction(<< >>, transaction.date, << >>, <<"Venmo transfer to ", transfer_to>>,
                <<Posting(venmo_assets_account, VenmoToAmount(amount_coef * transaction.amount),
                          [venmo_transaction_id |-> transaction.id,
                           venmo_type |-> "transfer",
                           venmo_payee |-> VenmoUserInfo(for_payee, <<"username", "display_name">>),
                           venmo_description |-> Sanitize(for_payment.note)]),
                  Posting(FIXME_ACCOUNT, VenmoToAmount((0 - amount_coef) * transaction.amount),
                          << >>)>>)

\* VenmoJsonSource.make_transfer_transaction when called for a transfer
VenmoTransferTransaction(transaction, transfer_to, amount_coef) ==
    Transaction(<< >>, transaction.date, << >>, <<"Venmo transfer to ", transfer_to>>,
                <<Posting(venmo_assets_account, VenmoToAmount(amount_coef * transaction.amount),
                          [venmo_transaction_id |-> transaction.id,
                           venmo_type |-> "transfer"]),
                  Posting(FIXME_ACCOUNT, VenmoToAmount((0 - amount_coef) * transaction.amount),
                          << >>)>>)

\* the branch of a payment or refund: locals holds prepare's local variables
\* payee and amount_coef, which keep what an earlier transaction of the same
\* prepare assigned when neither the actor nor the target is self_username;
\* reading one that is unbound raises UnboundLocalError
VenmoProcessPayment(transaction, r, locals) ==
    LET payment == transaction.payment
        actor_username == VenmoUserInfo(payment.actor, <<"username">>)
        target_username == VenmoUserInfo(payment.target, <<"username">>)
        self == target_username = self_username \/ actor_username = self_username
        payee == IF target_username = self_username THEN payment.actor
                 ELSE IF actor_username = self_username THEN payment.target
                 ELSE locals.payee
        coef1 == IF target_username = self_username
                 THEN (IF payment.action = "pay" THEN 1 ELSE -1)
                 ELSE IF actor_username = self_username
                 THEN (IF payment.action = "pay" THEN -1 ELSE 1)
                 ELSE locals.amount_coef
        amount_coef == IF transaction.type = "refund" THEN 0 - coef1 ELSE coef1
        funded == transaction.funding_source # None
                  /\ transaction.funding_source.type \in {"bank", "transfer"}
    IN  IF self /\ payment.action \notin {"pay", "charge"}
        THEN [outs |-> <<Raise>>, locals |-> locals]
        ELSE IF ~self /\ (~locals.payee_bound \/ ~locals.coef_bound)
        THEN [outs |-> <<Raise>>, locals |-> locals]
        ELSE [outs |-> (IF funded
                        THEN <<Out(VenmoTransferForPayment(transaction,
                                       transaction.funding_source.name, 0 - amount_coef,
                                       payment, payee), transaction.id, r)>>
                        ELSE << >>)
                       \o <<Out(VenmoPaymentTransaction(transaction, payment, payee, amount_coef),
                                transaction.id, r)>>,
              locals |-> [payee |-> payee, payee_bound |-> TRUE,
                          amount_coef |-> amount_coef, coef_bound |-> TRUE]]

\* the body of the loop over data['data']['transactions'], for element r
VenmoProcessTransaction(transaction, r, locals) ==
    IF transaction.type = "payment" \/ transaction.type = "refund"
    THEN VenmoProcessPayment(transaction, r, locals)
    ELSE IF transaction.type = "transfer"
    THEN [outs |-> <<Out(VenmoTransferTransaction(transaction, transaction.name, -1),
                         transaction.id, r)>>,
          locals |-> locals]
    ELSE IF transaction.type = "disbursement"
    THEN [outs |-> <<Out(VenmoPaymentTransaction(
                             transaction,
                             [note |-> transaction.note, amount |-> transaction.amount,
                              action |-> "disbursement"],
                             transaction.name, 1), transaction.id, r)>>,
          locals |-> [locals EXCEPT !.payee = transaction.name, !.payee_bound = TRUE]]
    ELSE [outs |-> <<Raise>>, locals |-> locals]

\* the transactions of one file from element r on
RECURSIVE VenmoProcessFrom(_, _, _)
VenmoProcessFrom(transactions, r, locals) ==
    IF r > Len(transactions) THEN [outs |-> << >>, locals |-> locals]
    ELSE LET step == VenmoProcessTransaction(transactions[r], r, locals)
         IN  IF \E i \in 1..Len(step.outs) : step.outs[i].raise THEN step
             ELSE LET rest == VenmoProcessFrom(transactions, r + 1, step.locals)
                  IN  [outs |-> step.outs \o rest.outs, locals |-> rest.locals]

\* one pass of the loop over self.json_filenames
VenmoProcessFile(f, locals) == VenmoProcessFrom(VenmoFile(f), 1, locals)

\* the keys an entry of the ledger is filed under by the scan of the journal:
\* once for every posting that carries the id
RECURSIVE VenmoPostingKeys(_)
VenmoPostingKeys(postings) ==
    IF postings = << >> THEN << >>
    ELSE (IF MetaHas(Head(postings).meta, "venmo_transaction_id")
          THEN <<Head(postings).meta.venmo_transaction_id>>
          ELSE << >>) \o VenmoPostingKeys(Tail(postings))

\* the scan of one entry of the journal
VenmoEntryKeys(entry) ==
    IF ~entry.isTxn THEN << >> ELSE VenmoPostingKeys(entry.postings)

---------------------------------------------------------------------------
(* Costco receipts (costco_receipt_source.py). *)

\* an element of itemArray: item numbers and descriptions are lists of
\* characters (<< >> for a description that is None or ''), amounts are cents
CostcoItem(itemNumber, itemDescription01, frenchItemDescription1, amount, itemIdentifier) ==
    [itemNumber |-> itemNumber, itemDescription01 |-> itemDescription01,
     itemDescription02 |-> << >>, frenchItemDescription1 |-> frenchItemDescription1,
     amount |-> amount, itemIdentifier |-> itemIdentifier, taxFlag |-> "A"]

\* a receipt of the download
CostcoOrder(documentType, date, transactionBarcode, itemArray, instantSavings, taxes, tenderArray) ==
    [documentType |-> documentType, date |-> date, transactionBarcode |-> transactionBarcode,
     itemArray |-> itemArray, instantSavings |-> instantSavings, taxes |-> taxes,
     tenderArray |-> tenderArray]

\* the receipt with barcode B1: an item and the rebate line of that item
CostcoReceiptB1 ==
    CostcoOrder("WarehouseReceiptDetail", 1, "B1",
                <<CostcoItem(<<"1", "0">>, <<"T", "O", "W", "E", "L">>, << >>, 1999, "E"),
                  CostcoItem(<<"9", "9">>, <<"/", "1", "0">>, << >>, -400, "")>>,
                400, 150,
                <<[tenderDescription |-> "COSTCO VISA", displayAccountNumber |-> "1234",
                   amountTender |-> 1749]>>)

\* the receipt with barcode B2, an older one: its savings are not itemized
CostcoReceiptB2 ==
    CostcoOrder("WarehouseReceiptDetail", 2, "B2",
                <<CostcoItem(<<"2", "0">>, <<"S", "O", "A", "P">>, << >>, 500, "F")>>,
                100, 0,
                <<[tenderDescription |-> "Cash", displayAccountNumber |-> "",
                   amountTender |-> 400]>>)

\* the downloads on disk: receipt B1 is in the first and in the second (the
\* downloads overlap), the third holds a document that is no warehouse receipt
CostcoFile(f) ==
    CASE f = 0 -> record
      [] f = 1 -> <<CostcoReceiptB1>>
      [] f = 2 -> <<CostcoReceiptB1, CostcoReceiptB2>>
      [] OTHER -> <<CostcoOrder("FuelReceiptDetail", 2, "B3", << >>, 0, 0, << >>)>>

\* the description _rebated_item_number_if_rebate reads the item number
\* from, << >> when neither description starts with '/' (a description that
\* is None counts as '')
CostcoRebateDescription(item) ==
    IF StartsWith(item.itemDescription01, <<"/">>) THEN item.itemDescription01
    ELSE IF StartsWith(item.frenchItemDescription1, <<"/">>) THEN item.frenchItemDescription1
    ELSE << >>

\* _rebated_item_number_if_rebate(item) is not None
CostcoIsRebate(item) == CostcoRebateDescription(item) # << >>

\* _rebated_item_number_if_rebate(item) for a rebate line:
\* description.lstrip('/')
RECURSIVE CostcoLStrip(_)
CostcoLStrip(description) ==
    IF description # << >> /\ Head(description) = "/" THEN CostcoLStrip(Tail(description))
    ELSE description

\* the item number a rebate line refers to
CostcoRebatedItemNumber(item) == CostcoLStrip(CostcoRebateDescription(item))

\* rebate_by_item_number: the amount of the last rebate line of each item
RECURSIVE CostcoRebates(_, _)
CostcoRebates(items, d) ==
    IF items = << >> THEN d
    ELSE CostcoRebates(Tail(items),
                       IF CostcoIsRebate(Head(items))
                       THEN DictSet(d, CostcoRebatedItemNumber(Head(items)), Head(items).amount)
                       ELSE d)

\* the posting of the savings of an older receipt
CostcoDiscountPostings(order, rebate_by_item_number) ==
    IF Len(rebate_by_item_number) = 0 /\ order.instantSavings # 0
    THEN <<Posting("Expenses:Costco:Discounts", Amount(0 - order.instantSavings, "USD"), << >>)>>
    ELSE << >>

\* the postings of the items, each net of the rebate on its item number
RECURSIVE CostcoItemPostings(_, _)
CostcoItemPostings(items, rebate_by_item_number) ==
    IF items = << >> THEN << >>
    ELSE LET item == Head(items)
             rest == CostcoItemPostings(Tail(items), rebate_by_item_number)
             item_amount == item.amount + DictGet(rebate_by_item_number, item.itemNumber, 0)
             item_account == IF item.itemIdentifier = "E" THEN "Expenses:Food:Groceries:Costco"
                             ELSE IF item.itemIdentifier = "F"
                             THEN "Expenses:Healthcare:Medicine:Costco"
                             ELSE "Expenses:Housing:Goods:Costco"
         IN  IF CostcoIsRebate(item) THEN rest
             ELSE <<Posting(item_account, Amount(item_amount, "USD"),
                            [costco_receipt_item_description |->
                                 <<item.itemNumber, item.itemDescription01>>,
                             costco_receipt_item_identifier |-> item.itemIdentifier,
                             costco_receipt_tax_flag |-> item.taxFlag])>> \o rest

\* the posting of one tender; the configured tender_account_from_description
\* knows the one card of the receipts
CostcoTenderPosting(tender) ==
    LET tender_description ==
            IF tender.displayAccountNumber = "" THEN <<tender.tenderDescription>>
            ELSE <<tender.tenderDescription, ", ", tender.displayAccountNumber>>
        tender_account ==
            IF tender.tenderDescription = "COSTCO CASH Rebate" THEN "Income:Rewards:Costco"
            ELSE IF tender_description = <<"Cash">> THEN "Expenses:Cash"
            ELSE "Liabilities:Citi:Costco"
    IN  Posting(tender_account, Amount(0 - tender.amountTender, "USD"),
                [costco_receipt_tender_description |-> tender_description])

\* the transaction of one receipt
CostcoTransaction(relative_filename, order) ==
    LET rebate_by_item_number == CostcoRebates(order.itemArray, EmptyDict)
    IN  Transaction([costco_receipt_source_file |-> relative_filename,
                     costco_receipt_order_datetime |-> order.date,
                     costco_receipt_barcode |-> order.transactionBarcode],
                    order.date, "Costco", "Costco warehouse",
                    CostcoDiscountPostings(order, rebate_by_item_number)
                    \o CostcoItemPostings(order.itemArray, rebate_by_item_number)
                    \o <<Posting("Expenses:Tax:Sales:Costco", Amount(order.taxes, "USD"), << >>)>>
                    \o [i \in 1..Len(order.tenderArray) |->
                           CostcoTenderPosting(order.tenderArray[i])])

\* one pass of the loop over self.json_filenames
CostcoProcessFile(f) ==
    LET data == CostcoFile(f)
        one(r) == IF data[r].documentType # "WarehouseReceiptDetail" THEN << >>
                  ELSE <<Out(CostcoTransaction(RelPath(f), data[r]),
                             data[r].transactionBarcode, r)>>
    IN  Flatten([r \in 1..Len(data) |-> one(r)])

\* the scan of one entry of the journal
CostcoEntryKeys(entry) ==
    IF ~entry.isTxn THEN << >>
    ELSE IF MetaHas(entry.meta, "costco_receipt_barcode")
         THEN <<entry.meta.costco_receipt_barcode>>
         ELSE << >>

---------------------------------------------------------------------------
(* The reconciliation every prepare performs. *)

\* the names of the sources (the name property of each class)
Sources ==
    {"adp_payroll", "workday_payroll", "boa_mortgage_csv", "emburse_chrome_river",
     "cashapp_csv", "venmo_json", "costco_receipt"}

\* the keys the scan of the journal files an entry under
EntryKeys(src, dir, entry) ==
    CASE src = "adp_payroll" -> AdpEntryKeys(entry)
      [] src = "workday_payroll" -> WorkdayEntryKeys(dir, entry)
      [] src = "boa_mortgage_csv" -> IF BoaScanRaises(entry) THEN << >> ELSE BoaEntryKeys(entry)
      [] src = "emburse_chrome_river" -> EmburseEntryKeys(entry)
      [] src = "cashapp_csv" -> CashAppEntryKeys(entry)
      [] src = "venmo_json" -> VenmoEntryKeys(entry)
      [] OTHER -> CostcoEntryKeys(entry)

\* the scan of the journal raises on one of the entries
ScanRaises(src, entries) ==
    src = "boa_mortgage_csv" /\ \E i \in 1..Len(entries) : BoaScanRaises(entries[i])

\* the outcomes of one pass of the loop over the filenames, and prepare's
\* local variables after it
ProcessFile(src, dir, f, locals) ==
    CASE src = "adp_payroll" -> [outs |-> AdpProcessFile(f), locals |-> locals]
      [] src = "workday_payroll" -> [outs |-> WorkdayProcessFile(dir, f), locals |-> locals]
      [] src = "boa_mortgage_csv" -> [outs |-> BoaProcessFile(f), locals |-> locals]
      [] src = "emburse_chrome_river" -> [outs |-> EmburseProcessFile(f), locals |-> locals]
      [] src = "cashapp_csv" -> [outs |-> CashAppProcessFile(f), locals |-> locals]
      [] src = "venmo_json" -> VenmoProcessFile(f, locals)
      [] OTHER -> [outs |-> CostcoProcessFile(f), locals |-> locals]

\* existing_transactions_by_*.setdefault(key, []).append(transaction) for
\* every key of the entry; Costco's existing_transactions_by_barcode[key] =
\* transaction keeps one transaction for each barcode
RECURSIVE FileUnder(_, _, _, _)
FileUnder(src, d, keys, entry) ==
    IF keys = << >> THEN d
    ELSE FileUnder(src,
                   IF src = "costco_receipt" THEN DictSet(d, Head(keys), entry)
                   ELSE DictSetDefaultAppend(d, Head(keys), entry),
                   Tail(keys), entry)

\* the scan of journal.all_entries that opens prepare
RECURSIVE ScanJournal(_, _, _, _)
ScanJournal(src, dir, entries, d) ==
    IF entries = << >> THEN d
    ELSE ScanJournal(src, dir, Tail(entries),
                     FileUnder(src, d, EntryKeys(src, dir, Head(entries)), Head(entries)))

\* a faulty variant of NewImported, which goes on with the dict an earlier
\* prepare of the instance left behind
KeptImported(old) == old

\* the dict imported_transactions_by_* starts from: prepare creates it anew
\* (old: what an earlier prepare of the same instance left behind)
NewImported(old) == EmptyDict

\* the report of a transaction that is not in the ledger: an ImportResult
\* of its own, with the transaction's date
PendingEntry(txn) == ImportResult(txn.date, <<txn>>)

\* a faulty variant of RecordTransaction, which reports one pending entry
\* for each key instead of one for each transaction
RecordTransactionOncePerKey(src, acc, existing, out, pos, f) ==
    LET fresh == ~DictHas(existing, out.key) /\ ~DictHas(acc.imported, out.key)
    IN  [acc EXCEPT
            !.imported = IF src = "costco_receipt" THEN DictSet(acc.imported, out.key, out.txn)
                         ELSE DictSetDefaultAppend(acc.imported, out.key, out.txn),
            !.synthesized = Append(acc.synthesized,
                                   [txn |-> out.txn, key |-> out.key, pos |-> pos,
                                    file |-> f, row |-> out.row]),
            !.pending = IF fresh THEN Append(acc.pending, ImportResult(out.txn.date, <<out.txn>>))
                        ELSE acc.pending,
            !.origin = IF fresh THEN Append(acc.origin, [pos |-> pos, file |-> f, row |-> out.row])
                       ELSE acc.origin]

\* record_transaction, and the same three lines inlined in the other sources:
\* the transaction is filed under its key and reported as a pending entry
\* when the ledger has no transaction of that key.  Costco's
\* imported_transactions_by_barcode[key] = txn keeps one for each barcode.
RecordTransaction(src, acc, existing, out, pos, f) ==
    [acc EXCEPT
        !.imported = IF src = "costco_receipt" THEN DictSet(acc.imported, out.key, out.txn)
                     ELSE DictSetDefaultAppend(acc.imported, out.key, out.txn),
        !.synthesized = Append(acc.synthesized,
                               [txn |-> out.txn, key |-> out.key, pos |-> pos,
                                file |-> f, row |-> out.row]),
        !.pending = IF DictHas(existing, out.key) THEN acc.pending
                    ELSE Append(acc.pending, PendingEntry(out.txn)),
        !.origin = IF DictHas(existing, out.key) THEN acc.origin
                   ELSE Append(acc.origin, [pos |-> pos, file |-> f, row |-> out.row])]

\* the outcomes of one file, applied in order; an exception ends prepare
RECURSIVE RecordAll(_, _, _, _, _, _)
RecordAll(src, acc, existing, outs, pos, f) ==
    IF outs = << >> THEN acc
    ELSE IF Head(outs).raise THEN [acc EXCEPT !.raised = TRUE]
    ELSE RecordAll(src, RecordTransaction(src, acc, existing, Head(outs), pos, f),
                   existing, Tail(outs), pos, f)

\* the body of the loop over the filenames for file f at position pos, given
\* what reading the file yields (step): its outcomes are recorded in order
RecordFile(src, acc, existing, step, pos, f) ==
    RecordAll(src, [acc EXCEPT !.locals = step.locals], existing, step.outs, pos, f)

\* the loop over the filenames, from position pos on
RECURSIVE ReadFiles(_, _, _, _, _, _)
ReadFiles(src, dir, names, pos, existing, acc) ==
    IF pos > Len(names) \/ acc.raised THEN acc
    ELSE ReadFiles(src, dir, names, pos + 1, existing,
                   RecordFile(src, acc, existing,
                              ProcessFile(src, dir, names[pos], acc.locals),
                              pos, names[pos]))

\* a faulty variant of InvalidReferences, which forgets to subtract the
\* number of transactions it expected
RECURSIVE InvalidReferencesUnsubtracted(_, _)
InvalidReferencesUnsubtracted(existing, imported) ==
    IF existing = << >> THEN << >>
    ELSE LET key == Head(existing)[1]
             transactions == Head(existing)[2]
             num_expected == Len(DictGet(imported, key, << >>))
             rest == InvalidReferencesUnsubtracted(Tail(existing), imported)
         IN  IF Len(transactions) = num_expected THEN rest
             ELSE <<InvalidSourceReference(
                       Len(transactions),
                       [i \in 1..Len(transactions) |-> <<transactions[i], None>>])>> \o rest

\* the closing loop over existing_transactions_by_* of every source but
\* Costco: one invalid reference for every key whose number of ledger
\* transactions differs from the number of transactions synthesized for it
RECURSIVE InvalidReferences(_, _)
InvalidReferences(existing, imported) ==
    IF existing = << >> THEN << >>
    ELSE LET key == Head(existing)[1]
             transactions == Head(existing)[2]
             num_expected == Len(DictGet(imported, key, << >>))
             num_extra == Len(transactions) - num_expected
             rest == InvalidReferences(Tail(existing), imported)
         IN  IF Len(transactions) = num_expected THEN rest
             ELSE <<InvalidSourceReference(
                       num_extra,
                       [i \in 1..Len(transactions) |-> <<transactions[i], None>>])>> \o rest

\* Costco's closing loop: one invalid reference, of one transaction, for
\* every barcode of the ledger that no receipt has
RECURSIVE CostcoInvalidReferences(_, _)
CostcoInvalidReferences(existing, imported) ==
    IF existing = << >> THEN << >>
    ELSE LET barcode == Head(existing)[1]
             txn == Head(existing)[2]
             rest == CostcoInvalidReferences(Tail(existing), imported)
         IN  IF DictHas(imported, barcode) THEN rest
             ELSE <<InvalidSourceReference(1, <<txn, None>>)>> \o rest

\* prepare's dicts and results before the first file is read
PrepareStart(old_imported) ==
    [imported |-> NewImported(old_imported), synthesized |-> << >>,
     pending |-> << >>, origin |-> << >>, raised |-> FALSE,
     locals |-> VenmoUnbound]

\* a faulty variant of PrepareEnd, which runs the closing loop after an
\* exception too
PrepareEndReporting(src, existing, acc) ==
    [existing |-> existing,
     imported |-> acc.imported,
     synthesized |-> acc.synthesized,
     pending |-> acc.pending,
     origin |-> acc.origin,
     raised |-> acc.raised,
     invalid |-> IF src = "costco_receipt"
                 THEN CostcoInvalidReferences(existing, acc.imported)
                 ELSE InvalidReferences(existing, acc.imported)]

\* what prepare leaves behind once the loop over the filenames is over
\* (acc), closing loop over existing_transactions_by_* included; an
\* exception leaves the closing loop out
PrepareEnd(src, existing, acc) ==
    [existing |-> existing,
     imported |-> acc.imported,
     synthesized |-> acc.synthesized,
     pending |-> acc.pending,
     origin |-> acc.origin,
     raised |-> acc.raised,
     invalid |-> IF acc.raised THEN << >>
                 ELSE IF src = "costco_receipt"
                 THEN CostcoInvalidReferences(existing, acc.imported)
                 ELSE InvalidReferences(existing, acc.imported)]

\* prepare after the scan of the journal has built existing
PrepareAfterScan(src, dir, names, entries, existing, start) ==
    PrepareEnd(src, existing,
               IF ScanRaises(src, entries) THEN [start EXCEPT !.raised = TRUE]
               ELSE ReadFiles(src, dir, names, 1, existing, start))

\* prepare as a whole: what it leaves in results and in its dicts
PrepareResult(src, dir, names, entries, old_imported) ==
    PrepareAfterScan(src, dir, names, entries,
                     ScanJournal(src, dir, entries, EmptyDict),
                     PrepareStart(old_imported))

---------------------------------------------------------------------------
(* The instance, the ledger and the host. *)

\* a faulty variant of SortedFilenames, which keeps the order of the
\* configuration
SuppliedFilenames(names) == names

\* the constructor's sorted([os.path.realpath(x) for x in filenames])
SortedFilenames(names) == Sorted(names)

\* the lists of filenames a constructor may be handed: any order, and (but
\* for Workday, whose list is a glob of xlsx_dir) the same file twice
ConfigLists(src) ==
    {l \in UNION {[1..n -> Files] : n \in 0..MaxConfig} :
        src = "workday_payroll" => \A i, j \in 1..Len(l) : l[i] = l[j] => i = j}

\* the sources that keep the key in the metadata of a posting
PostingKeyed == {"cashapp_csv", "venmo_json"}

\* an account, a payee and a narration written by hand, in the shape the
\* model gives those of the source (account names as components for
\* Workday; texts as lists for the sources that compose or sanitize them)
HandAccount(src) == IF src = "workday_payroll" THEN <<"Assets", "Cash">> ELSE "Assets:Cash"
HandPayee(src) == IF src \in PostingKeyed THEN << >> ELSE "by hand"
HandNarration(src, text) ==
    IF src \in PostingKeyed \cup {"emburse_chrome_river"} THEN <<text>> ELSE text

\* a posting written by hand, with metadata meta
HandPosting(src, number, meta) == Posting(HandAccount(src), Amount(number, "USD"), meta)

\* the metadata by which a transaction carries a key of the source: the
\* key of the first file or record, for the sources that keep it in the
\* transaction's metadata
KeyMeta(src, dir) ==
    CASE src = "adp_payroll" -> [adp_payroll_source_file |-> RelPath(1)]
      [] src = "workday_payroll" ->
           [workday_payroll_source_file |-> WorkdayRelPath(<<"w">>, 1)]
      [] src = "boa_mortgage_csv" ->
           [boa_mortgage_csv_source_file |-> RelPath(1),
            boa_mortgage_csv_source_description |-> "PAYMENT"]
      [] src = "emburse_chrome_river" -> [emburse_chrome_river_report_id |-> "R1"]
      [] src = "costco_receipt" -> [costco_receipt_barcode |-> "B1"]
      [] OTHER -> None

\* the metadata by which a posting carries a key of the peer-payment sources
KeyPostingMeta(src) ==
    CASE src = "cashapp_csv" -> [cashapp_transaction_id |-> "id1"]
      [] src = "venmo_json" -> [venmo_transaction_id |-> "v1"]
      [] OTHER -> None

\* the entries a user writes into the ledger by hand that carry a key of the
\* source: a copy of an imported transaction; for the peer-payment
\* sources, the transfer and the payment of one event merged into one
\* transaction (two postings carry the id); for Workday, the payslips of
\* two other Workday sources, whose files lie in the directories v and w2;
\* for ADP and Workday, a transaction that names the third file, which has
\* no amount
KeyedEntries(src, dir) ==
    IF src \in PostingKeyed
    THEN {Transaction(None, 1, HandPayee(src), HandNarration(src, "by hand"),
                      <<HandPosting(src, -500, KeyPostingMeta(src)),
                        HandPosting(src, 500, None)>>),
          Transaction(None, 1, HandPayee(src), HandNarration(src, "merged"),
                      <<HandPosting(src, 500, KeyPostingMeta(src)),
                        HandPosting(src, -500, KeyPostingMeta(src))>>)}
    ELSE {Transaction(KeyMeta(src, dir), 1, HandPayee(src), HandNarration(src, "by hand"),
                      <<HandPosting(src, 100, None)>>)}
         \cup (IF src = "workday_payroll"
               THEN {Transaction([workday_payroll_source_file |-> <<"v", "/", "1">>], 1,
                                 HandPayee(src), HandNarration(src, "elsewhere"),
                                 <<HandPosting(src, 100, None)>>),
                     Transaction([workday_payroll_source_file |-> <<"w", "2", "/", "1">>], 1,
                                 HandPayee(src), HandNarration(src, "sibling"),
                                 <<HandPosting(src, 100, None)>>),
                     Transaction([workday_payroll_source_file |-> WorkdayRelPath(<<"w">>, 3)], 2,
                                 HandPayee(src), HandNarration(src, "third"),
                                 <<HandPosting(src, 100, None)>>)}
               ELSE IF src = "adp_payroll"
               THEN {Transaction([adp_payroll_source_file |-> RelPath(3)], 2,
                                 HandPayee(src), HandNarration(src, "third"),
                                 <<HandPosting(src, 100, None)>>)}
               ELSE {})

\* the metadata a directive of the ledger may carry: the source's key
DirectiveMeta(src, dir) ==
    IF src \in PostingKeyed THEN KeyPostingMeta(src) ELSE KeyMeta(src, dir)

\* the entries of the ledger that carry no key of the source: a directive
\* that is no transaction, a transaction with no metadata, a transaction
\* with the metadata of something else
UnkeyedEntries(src, dir) ==
    {Directive(DirectiveMeta(src, dir), 1),
     Transaction(None, 2, HandPayee(src), HandNarration(src, "by hand"),
                 <<HandPosting(src, 100, None)>>),
     Transaction([other_source_id |-> "x"], 2, HandPayee(src), HandNarration(src, "by hand"),
                 <<HandPosting(src, 100, [other_source_id |-> "x"])>>)}

\* the entries a user may write into the ledger by hand
UserEntries(src, dir) == KeyedEntries(src, dir) \cup UnkeyedEntries(src, dir)

\* entries with entry e inserted after position i
InsertAt(entries, i, e) == SubSeq(entries, 1, i) \o <<e>> \o SubSeq(entries, i + 1, Len(entries))

\* entries without the entry at position i
RemoveAt(entries, i) == SubSeq(entries, 1, i - 1) \o SubSeq(entries, i + 1, Len(entries))

\* the trail after a manual edit of an entry: edits of entries without a
\* key since the last prepare are told from the others
EditTrail(unkeyed) ==
    IF unkeyed /\ trail \in {"prepared", "unkeyed"} THEN "unkeyed" ELSE "edited"

\* the lists of at most n elements of S
SeqsUpTo(S, n) == UNION {[1..k -> S] : k \in 0..n}

\* the amounts a line of an ADP pay statement may carry: none (the line has
\* no amount field), or a number of either sign with its currency code
AdpRecordAmounts ==
    {None, [amountValue |-> 100000, currencyCode |-> "USD"],
     [amountValue |-> -2500, currencyCode |-> "EUR"]}

\* the pay statements file 0 may hold: earnings, deductions and memos whose
\* codes the configuration knows or does not know
AdpRecords ==
    {[payDate |-> 1, earnings |-> e, deductions |-> d, memos |-> m] :
        e \in SeqsUpTo({[earningCodeName |-> c, earningAmount |-> a] :
                           c \in {"Regular", "Overtime"}, a \in AdpRecordAmounts},
                       MaxRecords),
        d \in SeqsUpTo({[deductionCategoryCodeName |-> "Taxes", CodeName |-> c,
                         deductionAmount |-> a] :
                           c \in {"Federal Income Tax", "Union Dues"},
                           a \in AdpRecordAmounts}, 1),
        m \in SeqsUpTo({[codeValue |-> c, shortName |-> "Memo", memoAmount |-> a] :
                           c \in {"grouptermlife", "other"}, a \in AdpRecordAmounts}, 1)}

\* the rows a Cash App export may hold: every type prepare knows and one it
\* does not, funded from the balance or from a card, in either currency,
\* and a row with a fee
CashAppRecordRows ==
    {[CashAppRow(id, 1, type, amount[1], "$0", <<104, 105>>, <<66, 111, 98>>, account)
         EXCEPT !.currency = amount[2]] :
        id \in {"id7", "id8"},
        type \in {"Sent P2P", "Received P2P", "Cash out", "Boost"},
        amount \in {<<"-$5.00", "USD">>, <<"$7.50", "EUR">>},
        account \in {"Your Cash", "Visa Debit 1234"}}
    \cup {CashAppRow("id9", 1, "Sent P2P", "-$5.00", "$1", << >>, <<66>>, "Your Cash")}

\* the funding sources of a Venmo payment: none, a bank account, a transfer,
\* the Venmo balance
VenmoFundingSources ==
    {None, [type |-> "bank", name |-> "Checking"], [type |-> "transfer", name |-> "Savings"],
     [type |-> "balance", name |-> "Venmo balance"]}

\* the transactions a Venmo download may hold: payments and refunds between
\* the configured user and another in both directions, with the actions
\* prepare knows and one it does not; payments between two other users,
\* with an action prepare knows and with one it does not; a transfer, a
\* disbursement and a transaction of an unknown type
VenmoRecordTransactions ==
    {VenmoTransaction("v7", 1, type, VenmoPayment(users[1], users[2], action, <<104, 105>>, 500),
                      funding_source, 500, << >>, "") :
        type \in {"payment", "refund"},
        users \in {<<VenmoMe, VenmoBob>>, <<VenmoCarol, VenmoMe>>},
        action \in {"pay", "charge"},
        funding_source \in VenmoFundingSources}
    \cup {VenmoTransaction("v7", 1, type, VenmoPayment(users[1], users[2], "request", << >>, 500),
                           None, 500, << >>, "") :
             type \in {"payment", "refund"},
             users \in {<<VenmoMe, VenmoBob>>, <<VenmoCarol, VenmoMe>>}}
    \cup {VenmoTransaction("v8", 1, "payment",
                           VenmoPayment(VenmoCarol, VenmoDave, "pay", << >>, 900),
                           None, 900, << >>, ""),
          VenmoTransaction("v8", 1, "payment",
                           VenmoPayment(VenmoCarol, VenmoDave, "request", << >>, 900),
                           None, 900, << >>, ""),
          VenmoTransaction("v8", 1, "transfer", None, None, 2000, << >>, "Checking"),
          VenmoTransaction("v8", 1, "disbursement", None, None, 300, <<114>>,
                           VenmoUser(<<83>>, <<83, 104, 111, 112>>)),
          VenmoTransaction("v8", 1, "authorization", None, None, 100, << >>, "")}

\* the tables a Workday payslip may hold: sections the configuration
\* knows (one for each kind of account) and one it does not, with an amount
\* column of either name or with none, the amount of the one row being NaN
\* or a number of either sign
WorkdayRecordTables ==
    {[name |-> name, amount_column |-> column[1], currency |-> column[2],
      rows |-> <<row>>] :
        name \in {"Earnings", "Employee Taxes", "Withholding", "Stock", "Net Pay", "Unlisted"},
        column \in {<<"Amount", "USD">>, <<"Amount in Pay Group Currency", "EUR">>},
        row \in {WorkdayRow("Item", TRUE, 0), WorkdayRow("Item", FALSE, 100000),
                 WorkdayRow("Item", FALSE, -5125)}}
    \cup {[name |-> "Earnings", amount_column |-> "none", currency |-> "USD",
           rows |-> <<WorkdayRow("Item", FALSE, 100000)>>]}

\* the rows an Emburse export may hold: items of two reports, in either
\* currency and of either sign
EmburseRecordRows ==
    {[EmburseRow("Visit", 1, "Airfare", 0, 1, "Conference", report_id)
         EXCEPT !.amount = amount] :
        report_id \in {"R7", "R8"},
        amount \in {Amount(30000, "USD"), Amount(-4000, "EUR")}}

\* the lines a Costco receipt may hold: two items of one number and an item
\* of another, two rebate lines on the first number (one in each of the
\* descriptions that may carry it) and a rebate line on a number no item has
CostcoRecordItems ==
    {CostcoItem(<<"1", "0">>, <<"T", "O", "W", "E", "L">>, << >>, 1999, "E"),
     CostcoItem(<<"1", "0">>, <<"T", "O", "W", "E", "L">>, << >>, 500, ""),
     CostcoItem(<<"2", "0">>, <<"S", "O", "A", "P">>, << >>, 700, "F"),
     CostcoItem(<<"9", "9">>, <<"/", "1", "0">>, << >>, -400, ""),
     CostcoItem(<<"9", "8">>, <<"T", "P", "D">>, <<"/", "1", "0">>, -100, ""),
     CostcoItem(<<"9", "7">>, <<"/", "3", "0">>, << >>, -50, "")}

\* the downloads that hold one warehouse receipt, with or without instant
\* savings
CostcoRecords ==
    {<<CostcoOrder("WarehouseReceiptDetail", 1, "B7", itemArray, instantSavings, 150,
                   <<[tenderDescription |-> "COSTCO VISA", displayAccountNumber |-> "1234",
                      amountTender |-> 1749]>>)>> :
        itemArray \in SeqsUpTo(CostcoRecordItems, MaxRecords + 1),
        instantSavings \in {0, 400}}

\* the sources whose records are studied one file at a time
RecordSources ==
    {"adp_payroll", "workday_payroll", "emburse_chrome_river", "cashapp_csv", "venmo_json",
     "costco_receipt"}

\* the contents file 0 may have; the tables of a payslip have distinct
\* names (read_tables returns a dict)
Records(src) ==
    CASE src = "adp_payroll" -> AdpRecords
      [] src = "workday_payroll" ->
           {r \in SeqsUpTo(WorkdayRecordTables, MaxRecords) :
               \A i, j \in 1..Len(r) : r[i].name = r[j].name => i = j}
      [] src = "emburse_chrome_river" -> SeqsUpTo(EmburseRecordRows, MaxRecords + 1)
      [] src = "cashapp_csv" -> SeqsUpTo(CashAppRecordRows, MaxRecords)
      [] src = "costco_receipt" -> CostcoRecords
      [] OTHER -> SeqsUpTo(VenmoRecordTransactions, MaxRecords)

Init ==
    /\ source \in Sources
    /\ xlsx_dir \in (IF source = "workday_payroll" THEN XlsxDirs ELSE {<< >>})
    /\ supplied \in ConfigLists(source)
    /\ filenames = SortedFilenames(supplied)
    /\ journal = << >>
    /\ pending = << >>
    /\ invalid = << >>
    /\ raised = FALSE
    /\ existing_transactions = EmptyDict
    /\ imported_transactions = EmptyDict
    /\ synthesized = << >>
    /\ pendingOrigin = << >>
    /\ prevPending = << >>
    /\ prevInvalid = << >>
    /\ prevOrigin = << >>
    /\ prevSynthesized = << >>
    /\ trail = "constructed"
    /\ lastTrail = "none"
    /\ removed = 0
    /\ edits = 0
    /\ tables_by_name = None
    /\ record = << >>

\* the state after construction of an instance that is configured with the
\* file under study and the first of the other files, the ledger being empty
InitRecords ==
    /\ source \in RecordSources
    /\ xlsx_dir = (IF source = "workday_payroll" THEN <<"w">> ELSE << >>)
    /\ record \in Records(source)
    /\ supplied = <<1, 0>>
    /\ filenames = SortedFilenames(supplied)
    /\ journal = << >>
    /\ pending = << >>
    /\ invalid = << >>
    /\ raised = FALSE
    /\ existing_transactions = EmptyDict
    /\ imported_transactions = EmptyDict
    /\ synthesized = << >>
    /\ pendingOrigin = << >>
    /\ prevPending = << >>
    /\ prevInvalid = << >>
    /\ prevOrigin = << >>
    /\ prevSynthesized = << >>
    /\ trail = "constructed"
    /\ lastTrail = "none"
    /\ removed = 0
    /\ edits = 0
    /\ tables_by_name = None

\* the host calls prepare(journal, results) with fresh results
Prepare ==
    \E r \in {PrepareResult(source, xlsx_dir, filenames, journal, imported_transactions)} :
        /\ pending' = r.pending
        /\ invalid' = r.invalid
        /\ raised' = r.raised
        /\ existing_transactions' = r.existing
        /\ imported_transactions' = r.imported
        /\ synthesized' = r.synthesized
        /\ pendingOrigin' = r.origin
        /\ prevPending' = pending
        /\ prevInvalid' = invalid
        /\ prevOrigin' = pendingOrigin
        /\ prevSynthesized' = synthesized
        /\ lastTrail' = trail
        /\ trail' = "prepared"
        /\ removed' = IF trail = "removed" THEN removed ELSE 0
        /\ UNCHANGED <<source, xlsx_dir, supplied, filenames, journal, edits, record, tables_by_name>>

\* the user accepts every pending entry: its transaction is appended to the
\* ledger as it is, metadata included
Accept ==
    /\ trail = "prepared"
    /\ ~raised
    /\ pending # << >>
    /\ Len(journal) + Len(pending) <= MaxJournal
    /\ journal' = journal \o [i \in 1..Len(pending) |-> pending[i].entries[1]]
    /\ trail' = "accepted"
    /\ UNCHANGED <<source, xlsx_dir, supplied, filenames, pending, invalid, raised,
                   existing_transactions, imported_transactions, synthesized,
                   pendingOrigin, prevPending, prevInvalid, prevOrigin, prevSynthesized,
                   lastTrail, removed, edits, record, tables_by_name>>

\* after accepting, the user takes file f out of the configuration (out of
\* xlsx_dir, for Workday): the source is constructed again without it
RemoveFile(f) ==
    /\ trail = "accepted"
    /\ \E i \in 1..Len(supplied) : supplied[i] = f
    /\ supplied' = SelectSeq(supplied, LAMBDA x : x # f)
    /\ filenames' = SortedFilenames(supplied')
    /\ existing_transactions' = EmptyDict
    /\ imported_transactions' = EmptyDict
    /\ removed' = f
    /\ trail' = "removed"
    /\ UNCHANGED <<source, xlsx_dir, journal, pending, invalid, raised, synthesized,
                   pendingOrigin, prevPending, prevInvalid, prevOrigin, prevSynthesized,
                   lastTrail, edits, record, tables_by_name>>

\* the user writes entry e into the ledger, after position i (the host
\* offers the front and the end of the ledger)
AddEntry(e, i) ==
    /\ edits < MaxEdits
    /\ Len(journal) < MaxJournal
    /\ journal' = InsertAt(journal, i, e)
    /\ edits' = edits + 1
    /\ trail' = EditTrail(e \in UnkeyedEntries(source, xlsx_dir))
    /\ UNCHANGED <<source, xlsx_dir, supplied, filenames, pending, invalid, raised,
                   existing_transactions, imported_transactions, synthesized,
                   pendingOrigin, prevPending, prevInvalid, prevOrigin, prevSynthesized,
                   lastTrail, removed, record, tables_by_name>>

\* the user deletes the entry at position i from the ledger
RemoveEntry(i) ==
    /\ edits < MaxEdits
    /\ journal' = RemoveAt(journal, i)
    /\ edits' = edits + 1
    /\ trail' = EditTrail(journal[i] \in UnkeyedEntries(source, xlsx_dir))
    /\ UNCHANGED <<source, xlsx_dir, supplied, filenames, pending, invalid, raised,
                   existing_transactions, imported_transactions, synthesized,
                   pendingOrigin, prevPending, prevInvalid, prevOrigin, prevSynthesized,
                   lastTrail, removed, record, tables_by_name>>

Next ==
    \/ Prepare
    \/ Accept
    \/ \E f \in Files : RemoveFile(f)
    \/ \E e \in UserEntries(source, xlsx_dir) : \E i \in {0, Len(journal)} : AddEntry(e, i)
    \/ \E i \in 1..Len(journal) : RemoveEntry(i)

Spec == Init /\ [][Next]_vars

\* the host of the second specification calls prepare, and nothing else
NextRecords == Prepare

\* the second specification: prepare over every content of the file under
\* study
SpecRecords == InitRecords /\ [][NextRecords]_vars

\* the rows a worksheet may hold: titles of two sections (one of them with
\* and without a trailing empty cell), rows of two and of three cells, a row
\* whose first cell is empty and a blank row
WorksheetRows ==
    {<<Cell("A"), None>>, <<Cell("A")>>, <<Cell("B"), None>>,
     <<Cell("k"), Cell("v")>>, <<Cell("k"), Cell("v"), Cell("w")>>,
     <<None, Cell("v")>>, <<None, None>>}

\* the state before read_tables is handed the rows of a worksheet
InitTables ==
    /\ source = "workday_payroll"
    /\ xlsx_dir = <<"w">>
    /\ record \in SeqsUpTo(WorksheetRows, MaxRows)
    /\ supplied = << >>
    /\ filenames = << >>
    /\ journal = << >>
    /\ pending = << >>
    /\ invalid = << >>
    /\ raised = FALSE
    /\ existing_transactions = EmptyDict
    /\ imported_transactions = EmptyDict
    /\ synthesized = << >>
    /\ pendingOrigin = << >>
    /\ prevPending = << >>
    /\ prevInvalid = << >>
    /\ prevOrigin = << >>
    /\ prevSynthesized = << >>
    /\ trail = "constructed"
    /\ lastTrail = "none"
    /\ removed = 0
    /\ edits = 0
    /\ tables_by_name = None

\* tables_by_name = MultiTableReader().read_tables(rows)
ReadTables ==
    /\ tables_by_name = None
    /\ tables_by_name' = read_tables(record)
    /\ UNCHANGED <<source, xlsx_dir, supplied, filenames, journal, pending, invalid,
                   raised, existing_transactions, imported_transactions, synthesized,
                   pendingOrigin, prevPending, prevInvalid, prevOrigin, prevSynthesized,
                   trail, lastTrail, removed, edits, record>>

\* the third specification: read_tables over every worksheet
NextTables == ReadTables

SpecTables == InitTables /\ [][NextTables]_vars


---------------------------------------------------------------------------
(* What the ledger and the files hold, told without prepare's dicts. *)

\* the identity keys of source src that a ledger entry carries: in its own
\* metadata or, for the peer-payment sources, in that of any of its postings
CarriedKeys(src, entry) ==
    IF ~entry.isTxn THEN {}
    ELSE CASE src = "adp_payroll" ->
                IF MetaHas(entry.meta, "adp_payroll_source_file")
                THEN {entry.meta.adp_payroll_source_file} ELSE {}
           [] src = "workday_payroll" ->
                IF MetaHas(entry.meta, "workday_payroll_source_file")
                THEN {entry.meta.workday_payroll_source_file} ELSE {}
           [] src = "boa_mortgage_csv" ->
                IF MetaHas(entry.meta, "boa_mortgage_csv_source_file")
                   /\ MetaHas(entry.meta, "boa_mortgage_csv_source_description")
                THEN {<<entry.meta.boa_mortgage_csv_source_file, entry.date,
                        entry.meta.boa_mortgage_csv_source_description>>}
                ELSE {}
           [] src = "emburse_chrome_river" ->
                IF MetaHas(entry.meta, "emburse_chrome_river_report_id")
                THEN {entry.meta.emburse_chrome_river_report_id} ELSE {}
           [] src = "cashapp_csv" ->
                {entry.postings[j].meta.cashapp_transaction_id :
                    j \in {i \in 1..Len(entry.postings) :
                              MetaHas(entry.postings[i].meta, "cashapp_transaction_id")}}
           [] src = "venmo_json" ->
                {entry.postings[j].meta.venmo_transaction_id :
                    j \in {i \in 1..Len(entry.postings) :
                              MetaHas(entry.postings[i].meta, "venmo_transaction_id")}}
           [] OTHER ->
                IF MetaHas(entry.meta, "costco_receipt_barcode")
                THEN {entry.meta.costco_receipt_barcode} ELSE {}

\* the identity keys found in the ledger
LedgerKeys == UNION {CarriedKeys(source, journal[i]) : i \in 1..Len(journal)}

\* the ledger transactions that carry key k, in ledger order
LedgerTransactionsOf(k) == SelectSeq(journal, LAMBDA e : k \in CarriedKeys(source, e))

\* the number of postings of a transaction that carry id k
PostingsWithId(entry, k) ==
    Cardinality({i \in 1..Len(entry.postings) :
                    k \in CarriedKeys(source, [entry EXCEPT !.postings = <<entry.postings[i]>>])})

\* how often the ledger carries key k as a source reads it: once for every
\* posting with the id for the peer-payment sources, once for every
\* transaction for the others, and never for a Workday file outside xlsx_dir
RECURSIVE Occurrences(_, _)
Occurrences(entries, k) ==
    IF entries = << >> THEN 0
    ELSE Occurrences(Tail(entries), k)
         + (IF k \notin CarriedKeys(source, Head(entries)) THEN 0
            ELSE IF source \in PostingKeyed THEN PostingsWithId(Head(entries), k)
            ELSE IF source = "workday_payroll" /\ ~StartsWith(k, xlsx_dir) THEN 0
            ELSE 1)

\* the keys of the transactions the last prepare synthesized
SynthesizedKeys == {synthesized[i].key : i \in 1..Len(synthesized)}

\* the transactions the last prepare synthesized for key k
SynthesizedOf(k) == SelectSeq(synthesized, LAMBDA s : s.key = k)

\* the pending entries of the last prepare that hold a transaction
\* synthesized for key k
PendingOf(k) ==
    SelectSeq(pending,
              LAMBDA p : \E i \in 1..Len(synthesized) :
                            /\ synthesized[i].key = k
                            /\ \E j \in 1..Len(p.entries) : p.entries[j] = synthesized[i].txn)

\* the transactions an invalid reference lists (Costco's holds one pair, the
\* others a list of pairs)
ListedIn(r) ==
    IF source = "costco_receipt" THEN <<r.transaction_entries[1]>>
    ELSE [i \in 1..Len(r.transaction_entries) |-> r.transaction_entries[i][1]]

\* the invalid references of the last prepare that list a transaction
\* carrying key k
InvalidFor(k) ==
    SelectSeq(invalid,
              LAMBDA r : \E i \in 1..Len(ListedIn(r)) : k \in CarriedKeys(source, ListedIn(r)[i]))

\* the last prepare completed and the ledger is the one it read
Reconciled == trail = "prepared" /\ ~raised

---------------------------------------------------------------------------
(* Properties. *)

\* C1: idempotence of prepare, for every source: when a prepare completed on
\* a ledger it had no complaint about, and every pending entry it reported
\* was appended verbatim to the ledger, the next prepare over the same files
\* reports no pending entry and no invalid reference.
C1_Idempotence ==
    (lastTrail = "accepted" /\ prevInvalid = << >>)
        => (pending = << >> /\ invalid = << >>)

\* C2: for every key with at least one synthesized transaction and no
\* ledger transaction, prepare reports one pending entry for each
\* synthesized transaction of the key, in the order of synthesis, each
\* holding exactly that transaction and carrying its date.
C2_PendingPerTransaction ==
    trail = "prepared" =>
        \A k \in SynthesizedKeys :
            LedgerTransactionsOf(k) = << >> =>
                PendingOf(k) = [i \in 1..Len(SynthesizedOf(k)) |->
                                   [date |-> SynthesizedOf(k)[i].txn.date,
                                    entries |-> <<SynthesizedOf(k)[i].txn>>,
                                    info |-> None]]

\* a prepare reported pending entries for a key that two transactions were
\* synthesized for, next to a key the ledger already has
C2_Witness ==
    /\ trail = "prepared"
    /\ \E k \in SynthesizedKeys :
          /\ LedgerTransactionsOf(k) = << >>
          /\ Len(SynthesizedOf(k)) >= 2
          /\ Len(PendingOf(k)) >= 2
    /\ \E k \in SynthesizedKeys : LedgerTransactionsOf(k) # << >>

C4_ExtrasSurface ==
    Reconciled =>
        \A k \in LedgerKeys :
            LET existing == Len(LedgerTransactionsOf(k))
                expected == Len(SynthesizedOf(k))
            IN  (expected > existing /\ existing > 0) =>
                    /\ InvalidFor(k) = << >>
                    /\ Len(PendingOf(k)) >= expected - existing

\* the number of transactions the prepare before the last synthesized for
\* key k from file f
ProducedBy(f, k) ==
    Len(SelectSeq(prevSynthesized, LAMBDA s : s.file = f /\ s.key = k))

\* the pending entries of the prepare before the last whose transaction
\* carries key k
AcceptedOf(k) ==
    SelectSeq(prevPending, LAMBDA p : k \in CarriedKeys(source, p.entries[1]))

\* C5: orphan detection, for every source: when a file produced N
\* transactions under key K, all of them accepted, and the file is taken out
\* of the configuration with no other file producing K, the next prepare
\* reports an invalid reference for K whose count is N.
C5_OrphanDetection ==
    (Reconciled /\ lastTrail = "removed") =>
        \A k \in {prevSynthesized[i].key : i \in 1..Len(prevSynthesized)} :
            LET n == ProducedBy(removed, k)
            IN  (n >= 1 /\ Len(AcceptedOf(k)) = n /\ SynthesizedOf(k) = << >>) =>
                    \E i \in 1..Len(InvalidFor(k)) : InvalidFor(k)[i].num_extras = n

\* C6: the Costco source is multiplicity-aware for each barcode: when the
\* ledger holds more transactions of a barcode than the receipt files hold
\* receipts of it, prepare reports an invalid reference whose count is the
\* difference.
C6_CostcoMultiplicity ==
    (Reconciled /\ source = "costco_receipt") =>
        \A k \in LedgerKeys :
            LET existing == Len(LedgerTransactionsOf(k))
                expected == Len(SynthesizedOf(k))
            IN  existing > expected =>
                    \E i \in 1..Len(InvalidFor(k)) :
                        InvalidFor(k)[i].num_extras = existing - expected

\* C7: determinism: a prepare that follows another prepare of the same
\* instance, with the files and the ledger unchanged, reports the same
\* pending entries and the same invalid references in the same order, and
\* ends the same way.
C7_Determinism ==
    lastTrail = "prepared" =>
        /\ pending = prevPending
        /\ invalid = prevInvalid
        /\ synthesized = prevSynthesized

\* the second of two successive prepares reported pending entries and
\* invalid references, with the dict of the first still at hand
C7_Witness ==
    /\ lastTrail = "prepared"
    /\ trail = "prepared"
    /\ pending # << >>
    /\ invalid # << >>
    /\ imported_transactions # EmptyDict
    /\ \E k \in LedgerKeys : SynthesizedOf(k) # << >>

\* C8: pending entries come in ascending order of the files' resolved paths
\* and, within one pass over a file, in the order of the file's records,
\* whatever the order of the filenames in the configuration; each holds the
\* transaction synthesized at that place.
C8_PendingOrder ==
    /\ Len(pendingOrigin) = Len(pending)
    /\ \A i \in 1..Len(pending) :
          \E s \in 1..Len(synthesized) :
             /\ synthesized[s].pos = pendingOrigin[i].pos
             /\ synthesized[s].file = pendingOrigin[i].file
             /\ synthesized[s].row = pendingOrigin[i].row
             /\ pending[i].entries = <<synthesized[s].txn>>
    /\ \A i, j \in 1..Len(pendingOrigin) :
          i < j =>
             /\ pendingOrigin[i].file <= pendingOrigin[j].file
             /\ pendingOrigin[i].pos <= pendingOrigin[j].pos
             /\ pendingOrigin[i].pos = pendingOrigin[j].pos
                   => pendingOrigin[i].row <= pendingOrigin[j].row

\* the filenames were supplied in descending order and the pending entries
\* come from two files, the first of them with two records
C8_Witness ==
    /\ Len(supplied) = 2
    /\ supplied[1] > supplied[2]
    /\ \E i, j \in 1..Len(pendingOrigin) : pendingOrigin[i].file < pendingOrigin[j].file
    /\ \E i, j \in 1..Len(pendingOrigin) :
          /\ pendingOrigin[i].pos = pendingOrigin[j].pos
          /\ pendingOrigin[i].row < pendingOrigin[j].row

KeyInOwnMeta(s) == s.key \in CarriedKeys(source, [s.txn EXCEPT !.postings = << >>])

\* the key is in the metadata of the transaction's first posting and of no
\* other posting
KeyInFirstPosting(s) ==
    /\ Len(s.txn.postings) >= 1
    /\ s.key \in CarriedKeys(source, [s.txn EXCEPT !.postings = <<s.txn.postings[1]>>])
    /\ CarriedKeys(source, [s.txn EXCEPT !.postings = Tail(s.txn.postings)]) = {}

\* C10 as the specification words it: every synthesized transaction
\* carries its identity key in its own metadata.
C10_KeyInOwnMetadata ==
    \A i \in 1..Len(synthesized) : KeyInOwnMeta(synthesized[i])

\* C10, amended: the ADP, Workday, mortgage, Emburse and Costco sources put
\* the key into the transaction's own metadata (the mortgage key's date is
\* the transaction's date); the Cash App and Venmo sources leave the
\* transaction's own metadata empty and put the id into the metadata of its
\* first posting only.
C10_KeyWhereTheScanReads ==
    \A i \in 1..Len(synthesized) :
        IF source \in PostingKeyed
        THEN /\ synthesized[i].txn.meta = << >>
             /\ KeyInFirstPosting(synthesized[i])
        ELSE KeyInOwnMeta(synthesized[i])

\* a Cash App prepare synthesized a transfer and a payment for one id
C10_Witness ==
    /\ source = "cashapp_csv"
    /\ \E i, j \in 1..Len(synthesized) :
          /\ i < j
          /\ synthesized[i].key = synthesized[j].key
          /\ synthesized[i].row = synthesized[j].row
          /\ synthesized[i].pos = synthesized[j].pos

---------------------------------------------------------------------------
(* Properties of the records of one file (second specification). *)

\* the transactions the last prepare built from file f, in order
SynthesizedFrom(f) == SelectSeq(synthesized, LAMBDA s : s.file = f)

\* the transactions the last prepare built from record r of file f
SynthesizedFromRow(f, r) == SelectSeq(synthesized, LAMBDA s : s.file = f /\ s.row = r)

\* the last prepare read the file under study
Studied == trail = "prepared" /\ \E i \in 1..Len(filenames) : filenames[i] = 0

\* the pay statement under study has a line with an amount whose code the
\* configuration does not know: an earning, a deduction, a memo
AdpEarningMiss ==
    \E i \in 1..Len(record.earnings) :
        /\ record.earnings[i].earningAmount # None
        /\ record.earnings[i].earningCodeName \notin DOMAIN earning_account_map
AdpDeductionMiss ==
    \E i \in 1..Len(record.deductions) :
        /\ record.deductions[i].deductionAmount # None
        /\ <<record.deductions[i].deductionCategoryCodeName, ": ",
             record.deductions[i].CodeName>> \notin DOMAIN deduction_code_to_account
AdpMemoMiss ==
    \E i \in 1..Len(record.memos) :
        /\ record.memos[i].memoAmount # None
        /\ record.memos[i].codeValue \notin DOMAIN memo_map

\* the payslip under study has a table with an amount that is a number, in a
\* section the configuration does not know
WorkdaySectionMiss ==
    \E i \in 1..Len(record) :
        /\ record[i].name \notin DOMAIN item_date_to_account_by_section
        /\ record[i].amount_column # "none"
        /\ \E j \in 1..Len(record[i].rows) : ~record[i].rows[j].nan

\* C11: when a line item with an amount has a category key that the
\* configured mapping or callback does not know (an ADP earning, deduction or
\* memo code, a Workday section name), prepare raises; the line item is not
\* dropped silently.
C11_LookupMissRaises ==
    Studied =>
        /\ (source = "adp_payroll" /\ (AdpEarningMiss \/ AdpDeductionMiss \/ AdpMemoMiss))
               => raised
        /\ (source = "workday_payroll" /\ WorkdaySectionMiss) => raised

\* the transaction types the loop of each peer-payment source knows
KnownTypes(src) ==
    IF src = "cashapp_csv" THEN {"Received P2P", "Sent P2P", "Cash out"}
    ELSE {"payment", "refund", "transfer", "disbursement"}

\* the last prepare built a transaction from record r of the file under
\* study or from a later record, or from a later file
WentOnFrom(r) ==
    \E i \in 1..Len(synthesized) :
        \/ synthesized[i].file = 0 /\ synthesized[i].row >= r
        \/ synthesized[i].file # 0

\* C12: when a Cash App row or a Venmo transaction is of a type the source
\* does not know, prepare fails, and it builds nothing from that record, from
\* the records after it or from the files after it.
C12_UnknownTypeFails ==
    (Studied /\ source \in PostingKeyed) =>
        \A r \in 1..Len(record) :
            record[r].type \notin KnownTypes(source) => (raised /\ ~WentOnFrom(r))

\* a record of an unknown type was followed by one prepare would have
\* processed, and prepare failed before it built anything
C12_Witness ==
    /\ Studied
    /\ source \in PostingKeyed
    /\ Len(record) = 2
    /\ record[1].type \notin KnownTypes(source)
    /\ record[2].type \in {"Cash out", "transfer"}
    /\ raised
    /\ synthesized = << >>

\* the first component of each account of the ADP configuration
AdpAccountKind ==
    ("Income:Hooli:Salary:Base" :> "Income")
    @@ ("Income:Hooli:Salary:Bonus" :> "Income")
    @@ ("Expenses:Tax:Income:Federal" :> "Expenses")
    @@ ("Assets:Hooli401k:Cash" :> "Assets")
    @@ ("Income:Hooli:GroupTermLife" :> "Income")
    @@ ("Expenses:LifeInsurance:HooliGroupTermLife" :> "Expenses")
    @@ ("Income:Hooli:HSAContribution" :> "Income")
    @@ ("Assets:HooliHSA:Cash" :> "Assets")

\* C13: in the ADP source the sign of a posting follows the kind of its
\* account, whatever the sign of the amount in the file: a posting to an
\* Income account is never positive, a posting to an Expenses or Assets
\* account is never negative.
C13_SignFollowsAccount ==
    (Studied /\ source = "adp_payroll") =>
        \A i \in 1..Len(synthesized) :
            synthesized[i].file = 0 =>
                \A j \in 1..Len(synthesized[i].txn.postings) :
                    LET posting == synthesized[i].txn.postings[j]
                    IN  /\ AdpAccountKind[posting.account] = "Income"
                            => posting.units.number <= 0
                        /\ AdpAccountKind[posting.account] \in {"Expenses", "Assets"}
                            => posting.units.number >= 0

\* the lines of the pay statement under study that have an amount
AdpEarningsWithAmount == SelectSeq(record.earnings, LAMBDA e : e.earningAmount # None)
AdpDeductionsWithAmount == SelectSeq(record.deductions, LAMBDA d : d.deductionAmount # None)

\* its memos that have an amount and a code that memo_map knows
AdpMemosPosted ==
    SelectSeq(record.memos,
              LAMBDA m : m.memoAmount # None /\ m.codeValue \in DOMAIN memo_map)

\* the pay statement under study has a line with an amount
AdpAmountBearing ==
    \/ AdpEarningsWithAmount # << >>
    \/ AdpDeductionsWithAmount # << >>
    \/ \E i \in 1..Len(record.memos) : record.memos[i].memoAmount # None

\* the postings the pay statement under study is to yield: one for each
\* earning with an amount, one for each deduction with an amount, two for
\* each memo with an amount whose code memo_map knows
AdpExpectedPostings ==
    [i \in 1..Len(AdpEarningsWithAmount) |->
        LET e == AdpEarningsWithAmount[i]
        IN  Posting(earning_account_map[e.earningCodeName],
                    Amount(0 - e.earningAmount.amountValue, e.earningAmount.currencyCode),
                    [adp_payroll_posting_description |-> <<"Earning: ", e.earningCodeName>>])]
    \o [i \in 1..Len(AdpDeductionsWithAmount) |->
        LET d == AdpDeductionsWithAmount[i]
            name == <<d.deductionCategoryCodeName, ": ", d.CodeName>>
        IN  Posting(deduction_code_to_account[name],
                    Amount(0 - d.deductionAmount.amountValue, d.deductionAmount.currencyCode),
                    [adp_payroll_posting_description |-> name])]
    \o [i \in 1..(2 * Len(AdpMemosPosted)) |->
        LET m == AdpMemosPosted[(i + 1) \div 2]
        IN  Posting(memo_map[m.codeValue][2 - (i % 2)],
                    Amount((IF i % 2 = 1 THEN -1 ELSE 1) * m.memoAmount.amountValue,
                           m.memoAmount.currencyCode),
                    [adp_payroll_posting_description |-> m.shortName])]

\* the file under study yielded one transaction, keyed by its path relative
\* to data_dir, with the postings expected of it
AdpOneTransaction ==
    /\ Len(SynthesizedFrom(0)) = 1
    /\ SynthesizedFrom(0)[1].key = RelPath(0)
    /\ SynthesizedFrom(0)[1].txn.meta = [adp_payroll_source_file |-> RelPath(0)]
    /\ SynthesizedFrom(0)[1].txn.postings = AdpExpectedPostings

\* C14 as the specification words it: every ADP file with at least one line
\* that has an amount yields exactly one transaction, keyed by the file's
\* path relative to data_dir, with one posting (negated amount, mapped
\* account) for each earning and each deduction that has an amount; lines
\* without an amount are skipped.
C14_OneTransactionPerFile ==
    (Studied /\ source = "adp_payroll" /\ AdpAmountBearing) => AdpOneTransaction

\* C14, amended: when an earning or deduction with an amount has a code the
\* configuration does not know, prepare raises and the file yields nothing;
\* otherwise a file with an earning or a deduction that has an amount, or a
\* memo that has an amount and a code memo_map knows, yields exactly one
\* transaction, keyed by the file's path relative to data_dir, with one
\* posting (negated amount, mapped account) for each such earning and
\* deduction and two for each such memo, the other lines being skipped; a
\* file with no such line yields no transaction.
C14_OneTransactionOfPostedLines ==
    (Studied /\ source = "adp_payroll") =>
        IF AdpEarningMiss \/ AdpDeductionMiss
        THEN raised /\ SynthesizedFrom(0) = << >>
        ELSE IF AdpEarningsWithAmount # << >> \/ AdpDeductionsWithAmount # << >>
                \/ AdpMemosPosted # << >>
        THEN AdpOneTransaction
        ELSE SynthesizedFrom(0) = << >>

\* a pay statement with an earning that has an amount, an earning that has
\* none and a deduction that has an amount yielded its transaction
C14_Witness ==
    /\ Studied
    /\ source = "adp_payroll"
    /\ ~raised
    /\ Len(record.earnings) = 2
    /\ Len(AdpEarningsWithAmount) = 1
    /\ Len(AdpDeductionsWithAmount) = 1
    /\ Len(SynthesizedFrom(0)) = 1
    /\ Len(SynthesizedFrom(0)[1].txn.postings) = 2

\* the currency the record behind posting j of synthesized transaction s
\* reports, or the home currency when the format reports none
ReportedCurrency(s, j) ==
    CASE source = "adp_payroll" -> AdpExpectedPostings[j].units.currency
      [] source = "cashapp_csv" -> record[s.row].currency
      [] source = "emburse_chrome_river" ->
           SelectSeq(record, LAMBDA row : row.report_id = s.key)[(j + 1) \div 2].amount.currency
      [] source = "workday_payroll" ->
           LET table == CHOOSE t \in {record[i] : i \in 1..Len(record)} :
                            t.name = s.txn.postings[j].meta.workday_payroll_posting_description[1]
           IN  IF table.amount_column = "Amount in Pay Group Currency" THEN table.currency
               ELSE "USD"
      [] OTHER -> "USD"

\* C15: the currency of every synthesized posting is the currency code the
\* source record reports when the format has one (ADP currencyCode, the
\* currency columns of Cash App and Emburse, Workday's 'Pay Group
\* Currency'), and USD when it has none.
C15_CurrencyOfTheRecord ==
    Studied =>
        \A i \in 1..Len(synthesized) :
            synthesized[i].file = 0 =>
                \A j \in 1..Len(synthesized[i].txn.postings) :
                    synthesized[i].txn.postings[j].units.currency
                        = ReportedCurrency(synthesized[i], j)

---------------------------------------------------------------------------
(* Properties of the ledger, continued (first specification). *)

\* os.path.dirname of a relative path: what precedes its last '/'
RECURSIVE DirName(_)
DirName(path) ==
    IF path = << >> THEN << >>
    ELSE IF path[Len(path)] = "/" THEN SubSeq(path, 1, Len(path) - 1)
    ELSE DirName(SubSeq(path, 1, Len(path) - 1))

\* the ledger transaction names a payslip that lies in the directory the
\* Workday instance is configured with
InsideXlsxDir(entry) ==
    DirName(entry.meta.workday_payroll_source_file) = NormPath(xlsx_dir)

\* C16: a Workday instance ignores the ledger transactions whose
\* workday_payroll_source_file lies outside its xlsx_dir: none of them is
\* listed in an invalid reference the instance reports.
C16_OutsideIgnored ==
    source = "workday_payroll" =>
        \A i \in 1..Len(invalid) :
            \A j \in 1..Len(ListedIn(invalid[i])) : InsideXlsxDir(ListedIn(invalid[i])[j])

\* the expense items of file f: its rows but the header and the two that
\* close it
EmburseItemsOfFile(f) == SubSeq(EmburseFile(f), 2, Len(EmburseFile(f)) - 2)

\* the configured files, each once, in the order of their paths
ConfiguredFiles ==
    SelectSeq(<<1, 2, 3>>, LAMBDA f : \E i \in 1..Len(filenames) : filenames[i] = f)

\* the expense items of report id in the configured files
EmburseItemsOfReport(id) ==
    Flatten([n \in 1..Len(ConfiguredFiles) |->
                SelectSeq(EmburseItemsOfFile(ConfiguredFiles[n]),
                          LAMBDA row : row.report_id = id)])

\* the report ids that occur in the configured files
EmburseReportIds ==
    UNION {{EmburseItemsOfFile(filenames[i])[r].report_id :
               r \in 1..Len(EmburseItemsOfFile(filenames[i]))} :
           i \in 1..Len(filenames)}

\* C17: the Emburse source creates exactly one transaction for each expense
\* report id that occurs in the configured files, with an Expenses:FIXME
\* posting of the negated amount and a receivable posting of the amount for
\* each expense item of the report.
C17_OneTransactionPerReport ==
    (trail = "prepared" /\ source = "emburse_chrome_river") =>
        \A id \in EmburseReportIds :
            /\ Len(SynthesizedOf(id)) = 1
            /\ LET items == EmburseItemsOfReport(id)
                   postings == SynthesizedOf(id)[1].txn.postings
               IN  /\ Len(postings) = 2 * Len(items)
                   /\ \A n \in 1..Len(items) :
                         /\ postings[2 * n - 1].account = "Expenses:FIXME"
                         /\ postings[2 * n - 1].units = Neg(items[n].amount)
                         /\ postings[2 * n].account = "Assets:Receivable:Hooli"
                         /\ postings[2 * n].units = items[n].amount

---------------------------------------------------------------------------
(* Properties of the records of one file, continued (second
   specification). *)

\* -1, 0 or 1
Sign(n) == IF n < 0 THEN -1 ELSE IF n > 0 THEN 1 ELSE 0

\* the absolute value
Abs(n) == IF n < 0 THEN 0 - n ELSE n

\* the record is a peer payment: a Cash App P2P row, a Venmo payment or
\* refund
PeerPayment(rec) ==
    IF source = "cashapp_csv" THEN rec.type \in {"Received P2P", "Sent P2P"}
    ELSE rec.type \in {"payment", "refund"}

\* the peer payment is funded from outside the wallet
ExternallyFunded(rec) ==
    IF source = "cashapp_csv" THEN rec.account # "Your Cash"
    ELSE /\ rec.funding_source # None
         /\ rec.funding_source.type \in {"bank", "transfer"}

\* the record moves money between the wallet and the bank
BankTransfer(rec) ==
    IF source = "cashapp_csv" THEN rec.type = "Cash out" ELSE rec.type = "transfer"

\* the posting on the wallet account of synthesized transaction s
WalletPosting(s) == s.txn.postings[1]

\* the external id and the type the wallet posting of s carries
WalletId(s) ==
    IF source = "cashapp_csv" THEN WalletPosting(s).meta.cashapp_transaction_id
    ELSE WalletPosting(s).meta.venmo_transaction_id
WalletType(s) ==
    IF source = "cashapp_csv" THEN WalletPosting(s).meta.cashapp_type
    ELSE WalletPosting(s).meta.venmo_type

\* s is a transfer on the wallet account under the id of rec; s is a
\* payment on the wallet account under the id of rec
TransferOf(s, rec) ==
    /\ WalletPosting(s).account = (IF source = "cashapp_csv" THEN cashapp_account
                                   ELSE venmo_assets_account)
    /\ WalletId(s) = rec.id
    /\ WalletType(s) = "transfer"
PaymentOf(s, rec) ==
    /\ WalletPosting(s).account = (IF source = "cashapp_csv" THEN cashapp_account
                                   ELSE venmo_assets_account)
    /\ WalletId(s) = rec.id
    /\ WalletType(s) # "transfer"

\* outs, the transactions built from record rec, are what the funding of
\* rec asks for
FundingShape(rec, outs) ==
    /\ (PeerPayment(rec) /\ ExternallyFunded(rec)) =>
          /\ Len(outs) = 2
          /\ TransferOf(outs[1], rec)
          /\ PaymentOf(outs[2], rec)
          /\ WalletPosting(outs[2]).units.number # 0
          /\ Sign(WalletPosting(outs[1]).units.number)
                 = 0 - Sign(WalletPosting(outs[2]).units.number)
    /\ (PeerPayment(rec) /\ ~ExternallyFunded(rec)) =>
          /\ Len(outs) = 1
          /\ PaymentOf(outs[1], rec)
    /\ BankTransfer(rec) =>
          /\ Len(outs) = 1
          /\ TransferOf(outs[1], rec)

\* C18: a Cash App P2P row whose account is not 'Your Cash', and a Venmo
\* payment or refund funded by a bank or a transfer, yields exactly two
\* transactions under its id, the transfer first and the payment second,
\* their wallet postings of opposite signs; funded from the wallet it yields
\* exactly one payment; a Cash App 'Cash out' and a Venmo 'transfer' yield
\* exactly one transfer.  (Every record prepare got to: all of them when it
\* did not fail.)
C18_TransferThenPayment ==
    (Studied /\ source \in PostingKeyed) =>
        \A r \in 1..Len(record) :
            (~raised \/ SynthesizedFromRow(0, r) # << >>) =>
                FundingShape(record[r], SynthesizedFromRow(0, r))

\* a Venmo refund funded by a bank account yielded two transactions and the
\* transfer to the bank after it yielded one
C18_Witness ==
    /\ Studied
    /\ source = "venmo_json"
    /\ ~raised
    /\ Len(record) = 2
    /\ record[1].type = "refund"
    /\ record[1].funding_source # None
    /\ record[1].funding_source.type = "bank"
    /\ Len(SynthesizedFromRow(0, 1)) = 2
    /\ record[2].type = "transfer"
    /\ Len(SynthesizedFromRow(0, 2)) = 1

\* the configured user is the target of the payment; is its actor
SelfIsTarget(payment) == payment.target.user.username = self_username
SelfIsActor(payment) == payment.actor.username = self_username

\* the sign the roles and the action of Venmo transaction rec ask for
RoleSign(rec) ==
    (IF rec.type = "refund" THEN -1 ELSE 1)
    * (IF \/ SelfIsTarget(rec.payment) /\ rec.payment.action = "pay"
          \/ SelfIsActor(rec.payment) /\ rec.payment.action = "charge"
       THEN 1 ELSE -1)

\* C19: the wallet posting of a Venmo payment has sign +1 when the
\* configured user is the target of a 'pay' or the actor of a 'charge' and
\* -1 when the target of a 'charge' or the actor of a 'pay'; a refund has
\* the opposite sign of the payment it reverses; any other action makes
\* prepare fail, and nothing is built from that transaction or a later one.
C19_SignByRoleAndAction ==
    (Studied /\ source = "venmo_json") =>
        \A r \in 1..Len(record) :
            record[r].type \in {"payment", "refund"} =>
                /\ record[r].payment.action \notin {"pay", "charge"} =>
                      (raised /\ ~WentOnFrom(r))
                /\ (/\ record[r].payment.action \in {"pay", "charge"}
                    /\ SelfIsTarget(record[r].payment) \/ SelfIsActor(record[r].payment)) =>
                      /\ ~raised => SynthesizedFromRow(0, r) # << >>
                      /\ \A i \in 1..Len(SynthesizedFromRow(0, r)) :
                            PaymentOf(SynthesizedFromRow(0, r)[i], record[r]) =>
                                WalletPosting(SynthesizedFromRow(0, r)[i]).units.number
                                    = RoleSign(record[r]) * record[r].payment.amount

\* the postings the payslip's transaction has for table t
WorkdayPostingsOf(t) ==
    IF SynthesizedFrom(0) = << >> THEN << >>
    ELSE SelectSeq(SynthesizedFrom(0)[1].txn.postings,
                   LAMBDA p : p.meta.workday_payroll_posting_description[1] = t.name)

\* table t of the payslip is one prepare posts: its section is configured
\* and it has an amount column
WorkdayPosted(t) ==
    /\ t.name \in DOMAIN item_date_to_account_by_section
    /\ t.amount_column # "none"

\* the posting has the sign of its account: Income, Equity and Liabilities
\* at most zero, Expenses and Assets at least zero
WorkdaySigned(p) ==
    /\ p.account[1] \in {"Income", "Equity", "Liabilities"} => p.units.number <= 0
    /\ p.account[1] \in {"Expenses", "Assets"} => p.units.number >= 0

\* cents is the amount of thousandths rounded to the nearest cent, a tie
\* going to the even cent
NearestCent(cents, thousandths) ==
    /\ 10 * cents - thousandths \in -5..5
    /\ Abs(10 * cents - thousandths) = 5 => cents % 2 = 0

\* C20: in the Workday source a raw amount that is a number, of either sign,
\* is posted at most zero on an Income, Equity or Liabilities account and at
\* least zero on an Expenses or Assets account, its absolute value
\* unchanged; a NaN amount yields no posting.
C20_SignByAccountKind ==
    (Studied /\ source = "workday_payroll") =>
        \A i \in 1..Len(record) :
            WorkdayPosted(record[i]) =>
                IF record[i].rows[1].nan THEN WorkdayPostingsOf(record[i]) = << >>
                ELSE /\ Len(WorkdayPostingsOf(record[i]))
                            = Len(item_date_to_account_by_section[record[i].name])
                     /\ \A j \in 1..Len(WorkdayPostingsOf(record[i])) :
                           /\ WorkdaySigned(WorkdayPostingsOf(record[i])[j])
                           /\ 10 * Abs(WorkdayPostingsOf(record[i])[j].units.number)
                                  = Abs(record[i].rows[1].amount)

\* C20, amended: ... its absolute value that of the raw amount rounded to two
\* decimal places, a tie going to the even digit; a NaN amount yields no
\* posting.
C20_SignByAccountKindRounded ==
    (Studied /\ source = "workday_payroll") =>
        \A i \in 1..Len(record) :
            WorkdayPosted(record[i]) =>
                IF record[i].rows[1].nan THEN WorkdayPostingsOf(record[i]) = << >>
                ELSE /\ Len(WorkdayPostingsOf(record[i]))
                            = Len(item_date_to_account_by_section[record[i].name])
                     /\ \A j \in 1..Len(WorkdayPostingsOf(record[i])) :
                           /\ WorkdaySigned(WorkdayPostingsOf(record[i])[j])
                           /\ NearestCent(Abs(WorkdayPostingsOf(record[i])[j].units.number),
                                          Abs(record[i].rows[1].amount))

\* a payslip with a negative amount of 5.125 in a section on an Expenses
\* account and a NaN amount in another yielded one posting, of 5.12
C20_Witness ==
    /\ Studied
    /\ source = "workday_payroll"
    /\ Len(record) = 2
    /\ record[1].name = "Employee Taxes"
    /\ record[1].rows[1].amount = -5125
    /\ ~record[1].rows[1].nan
    /\ WorkdayPosted(record[2])
    /\ record[2].rows[1].nan
    /\ Len(SynthesizedFrom(0)) = 1
    /\ Len(SynthesizedFrom(0)[1].txn.postings) = 1
    /\ SynthesizedFrom(0)[1].txn.postings[1].units.number = 512

\* the sum of the amounts of the lines of a receipt
RECURSIVE SumOfAmounts(_)
SumOfAmounts(items) ==
    IF items = << >> THEN 0 ELSE Head(items).amount + SumOfAmounts(Tail(items))

\* the sum of the numbers of postings
RECURSIVE SumOfPostings(_)
SumOfPostings(postings) ==
    IF postings = << >> THEN 0 ELSE Head(postings).units.number + SumOfPostings(Tail(postings))

\* the line of a receipt is a rebate line: one of its two descriptions
\* begins with '/'
RebateLine(item) ==
    \/ item.itemDescription01 # << >> /\ item.itemDescription01[1] = "/"
    \/ item.frenchItemDescription1 # << >> /\ item.frenchItemDescription1[1] = "/"

\* the rebate line refers to item number n
RebateOn(item, n) ==
    /\ RebateLine(item)
    /\ \/ item.itemDescription01 = <<"/">> \o n
       \/ /\ ~(item.itemDescription01 # << >> /\ item.itemDescription01[1] = "/")
          /\ item.frenchItemDescription1 = <<"/">> \o n

\* the receipt under study, its item lines and its rebate lines
StudiedReceipt == record[1]
ItemLines == SelectSeq(StudiedReceipt.itemArray, LAMBDA item : ~RebateLine(item))
RebateLines == SelectSeq(StudiedReceipt.itemArray, LAMBDA item : RebateLine(item))

\* the postings the transaction of the receipt under study has for items,
\* and those it has on the discount account
ItemPostings ==
    SelectSeq(SynthesizedFrom(0)[1].txn.postings,
              LAMBDA p : MetaHas(p.meta, "costco_receipt_item_description"))
DiscountPostings ==
    SelectSeq(SynthesizedFrom(0)[1].txn.postings,
              LAMBDA p : p.account = "Expenses:Costco:Discounts")

\* C22: in a Costco receipt every rebate line is netted into the posting of
\* the item with its number and none has a posting of its own: there is one
\* item posting per item line, for the amount of the line plus the amounts
\* of the rebate lines on its number; only a receipt without any rebate line
\* has a discount posting, a single one for the negated instantSavings, when
\* these are not zero.
C22_RebatesNetted ==
    (Studied /\ source = "costco_receipt") =>
        /\ Len(SynthesizedFrom(0)) = 1
        /\ Len(ItemPostings) = Len(ItemLines)
        /\ \A k \in 1..Len(ItemLines) :
              ItemPostings[k].units.number
                  = ItemLines[k].amount
                    + SumOfAmounts(SelectSeq(RebateLines,
                                             LAMBDA item : RebateOn(item, ItemLines[k].itemNumber)))
        /\ IF RebateLines = << >> /\ StudiedReceipt.instantSavings # 0
           THEN /\ Len(DiscountPostings) = 1
                /\ DiscountPostings[1].units.number = 0 - StudiedReceipt.instantSavings
           ELSE DiscountPostings = << >>

\* C30: in a Costco receipt with at least one rebate line, the item postings
\* sum to the sum of the amounts of all lines of itemArray, items and
\* rebates: also when two rebate lines are on one item number, when a rebate
\* line is on a number no item has and when two item lines share a number.
C30_RebateConservation ==
    (Studied /\ source = "costco_receipt" /\ RebateLines # << >>) =>
        /\ Len(SynthesizedFrom(0)) = 1
        /\ SumOfPostings(ItemPostings) = SumOfAmounts(StudiedReceipt.itemArray)

\* the transactions prepare builds from Venmo transaction r of the file
\* under study when it is the first transaction prepare comes to
BuiltAlone(r) ==
    SelectSeq(VenmoProcessTransaction(record[r], r, VenmoUnbound).outs, LAMBDA o : ~o.raise)

\* C25: for every Venmo payment or refund the payee and the sign of the
\* synthesized amounts depend on the transaction's own fields only: what
\* prepare builds from it is what it builds from it when nothing was
\* processed before, so a transaction in which neither the actor nor the
\* target is self_username takes nothing from an earlier one.
C25_OwnFieldsOnly ==
    (Studied /\ source = "venmo_json") =>
        \A r \in 1..Len(record) :
            (record[r].type \in {"payment", "refund"} /\ SynthesizedFromRow(0, r) # << >>) =>
                [i \in 1..Len(SynthesizedFromRow(0, r)) |-> SynthesizedFromRow(0, r)[i].txn]
                    = [i \in 1..Len(BuiltAlone(r)) |-> BuiltAlone(r)[i].txn]

\* C27: every transaction the Cash App and Venmo sources synthesize has
\* exactly two postings, the first on the configured wallet account and the
\* second on the FIXME account, the amount of the second being the negation
\* of the amount of the first: the transaction sums to zero.
C27_TwoBalancedPostings ==
    source \in PostingKeyed =>
        \A i \in 1..Len(synthesized) :
            /\ Len(synthesized[i].txn.postings) = 2
            /\ synthesized[i].txn.postings[1].account
                   = (IF source = "cashapp_csv" THEN cashapp_account ELSE venmo_assets_account)
            /\ synthesized[i].txn.postings[2].account = FIXME_ACCOUNT
            /\ synthesized[i].txn.postings[2].units = Neg(synthesized[i].txn.postings[1].units)
            /\ synthesized[i].txn.postings[1].units.number
                   + synthesized[i].txn.postings[2].units.number = 0

\* a Venmo payment funded by a bank account and a disbursement after it
\* yielded a transfer and two payments, each of a nonzero amount
C27_Witness ==
    /\ Studied
    /\ source = "venmo_json"
    /\ ~raised
    /\ Len(record) = 2
    /\ record[1].type = "payment"
    /\ record[2].type = "disbursement"
    /\ Len(SynthesizedFromRow(0, 1)) = 2
    /\ Len(SynthesizedFromRow(0, 2)) = 1
    /\ \A i \in 1..Len(synthesized) : synthesized[i].txn.postings[1].units.number # 0

---------------------------------------------------------------------------
(* Properties of the reader of worksheets (third specification). *)

\* the row has one non-empty leading cell and all its trailing cells are
\* empty
TitleRow(row) ==
    /\ Len(row) >= 1
    /\ row[1] # None
    /\ \A k \in 2..Len(row) : row[k] = None

\* read_tables has returned the tables of the worksheet
TablesRead == tables_by_name # None /\ ~tables_by_name.raise

\* the title row that opened the section row i lies in: the last one
\* before it
OpenedBefore(i) ==
    CHOOSE h \in 1..i : TitleRow(record[h]) /\ \A j \in h + 1..i : ~TitleRow(record[j])

\* the cells of columns are those of row, which has nothing but empty cells
\* after them
IsColumnsOf(columns, row) ==
    /\ Len(columns) <= Len(row)
    /\ \A i \in 1..Len(columns) : columns[i] = row[i]
    /\ \A i \in Len(columns) + 1..Len(row) : row[i] = None

\* the line of a table holds the cells of row under the table's columns
IsLineOf(line, columns, row) ==
    /\ Len(line) = Len(columns)
    /\ \A i \in 1..Len(line) : line[i] = (IF i <= Len(row) THEN row[i] ELSE None)

\* row is the n-th row of the table: the first row names the columns, the
\* others are its lines
IsRowOf(frame, n, row) ==
    /\ ~frame.empty
    /\ IF n = 1 THEN IsColumnsOf(frame.columns, row)
       ELSE /\ n - 1 <= Len(frame.data)
            /\ IsLineOf(frame.data[n - 1], frame.columns, row)

\* C21: read_tables partitions the rows into named tables: a row opens a
\* section exactly when it has one non-empty leading cell and all its
\* trailing cells are empty (the tables are named after these rows), and
\* every other row is in the table of the section opened last before it, at
\* its place after the title.
C21_RowsPartitioned ==
    TablesRead =>
        /\ {tables_by_name.tables[i][1] : i \in 1..Len(tables_by_name.tables)}
               = {record[h][1].value : h \in {i \in 1..Len(record) : TitleRow(record[i])}}
        /\ \A i \in 1..Len(record) :
              ~TitleRow(record[i]) =>
                  IsRowOf(DictGet(tables_by_name.tables,
                                  record[OpenedBefore(i)][1].value, None),
                          i - OpenedBefore(i), record[i])

---------------------------------------------------------------------------
(* Properties of the peer-payment sources (first specification). *)

\* the text, a list of character codes, has printable ASCII characters only
Printable(text) == \A k \in 1..Len(text) : text[k] >= 32 /\ text[k] <= 126

\* the free text of the metadata of posting p: the payee and the description
MetaTextPrintable(p) ==
    /\ MetaHas(p.meta, "cashapp_payee") => Printable(p.meta.cashapp_payee)
    /\ MetaHas(p.meta, "cashapp_description") => Printable(p.meta.cashapp_description)
    /\ MetaHas(p.meta, "venmo_payee") => Printable(p.meta.venmo_payee)
    /\ MetaHas(p.meta, "venmo_description") => Printable(p.meta.venmo_description)

\* the notes in the narration of a payment are printable
NotesPrintable(s) ==
    WalletType(s) # "transfer" => Printable(s.txn.narration[Len(s.txn.narration)])

\* C23: every free text the Cash App and Venmo sources store in the payee,
\* the narration or the posting metadata of a synthesized transaction has
\* printable ASCII characters only, whatever the file holds.
C23_PrintableText ==
    source \in PostingKeyed =>
        \A i \in 1..Len(synthesized) :
            /\ Printable(synthesized[i].txn.payee)
            /\ NotesPrintable(synthesized[i])
            /\ \A j \in 1..Len(synthesized[i].txn.postings) :
                  MetaTextPrintable(synthesized[i].txn.postings[j])

---------------------------------------------------------------------------
(* Properties of the ledger, concluded (first specification). *)

\* C24: a transaction synthesized for a key that a ledger transaction
\* already carries is never in a pending entry, however many transactions
\* are synthesized for the key: a record added upstream under a key that was
\* imported is not offered for import.
C24_ImportedKeyNeverPending ==
    trail = "prepared" =>
        \A k \in SynthesizedKeys :
            LedgerTransactionsOf(k) # << >> => PendingOf(k) = << >>

\* C26: when prepare raises while it processes a record, it has reported no
\* invalid reference in that call (these are reported after the last file),
\* and the pending entries it reported for the records before are still in
\* the results: one for every transaction synthesized for a key the ledger
\* does not have.
C26_NoRollback ==
    (trail = "prepared" /\ raised) =>
        /\ invalid = << >>
        /\ \A k \in SynthesizedKeys :
              LedgerTransactionsOf(k) = << >> => Len(PendingOf(k)) = Len(SynthesizedOf(k))

\* a prepare raised after it had reported a pending entry, on a ledger with
\* a key that no file has
C26_Witness ==
    /\ trail = "prepared"
    /\ raised
    /\ pending # << >>
    /\ \E k \in LedgerKeys : k \notin SynthesizedKeys

\* the key of the transaction of file f in the ADP and Workday sources
FileKey(f) ==
    IF source = "workday_payroll" THEN WorkdayRelPath(xlsx_dir, f) ELSE RelPath(f)

\* file f has nothing prepare posts: no earning or deduction with an amount
\* and no memo of memo_map with one; no number in an amount column of a
\* configured section
NothingToPost(f) ==
    IF source = "adp_payroll"
    THEN /\ \A i \in 1..Len(AdpFile(f).earnings) :
               AdpFile(f).earnings[i].earningAmount = None
         /\ \A i \in 1..Len(AdpFile(f).deductions) :
               AdpFile(f).deductions[i].deductionAmount = None
         /\ \A i \in 1..Len(AdpFile(f).memos) :
               \/ AdpFile(f).memos[i].memoAmount = None
               \/ AdpFile(f).memos[i].codeValue \notin DOMAIN memo_map
    ELSE \A i \in 1..Len(WorkdayFile(f).tables) :
            \/ WorkdayFile(f).tables[i].name \notin DOMAIN item_date_to_account_by_section
            \/ WorkdayFile(f).tables[i].amount_column = "none"
            \/ \A r \in 1..Len(WorkdayFile(f).tables[i].rows) :
                  WorkdayFile(f).tables[i].rows[r].nan

\* C28: in the ADP and Workday sources a file that yields no posting gives
\* no synthesized transaction and no pending entry, so the ledger
\* transactions that name the file are all listed in one invalid reference,
\* whose excess is their number.
C28_EmptyFileOrphans ==
    (Reconciled /\ source \in {"adp_payroll", "workday_payroll"}) =>
        \A i \in 1..Len(filenames) :
            NothingToPost(filenames[i]) =>
                /\ SynthesizedOf(FileKey(filenames[i])) = << >>
                /\ PendingOf(FileKey(filenames[i])) = << >>
                /\ LedgerTransactionsOf(FileKey(filenames[i])) # << >> =>
                      /\ Len(InvalidFor(FileKey(filenames[i]))) = 1
                      /\ InvalidFor(FileKey(filenames[i]))[1].num_extras
                             = Len(LedgerTransactionsOf(FileKey(filenames[i])))
                      /\ ListedIn(InvalidFor(FileKey(filenames[i]))[1])
                             = LedgerTransactionsOf(FileKey(filenames[i]))

\* the postings of the ledger that carry the id k: <<i, j>> is posting j of
\* entry i
PostingsCarrying(k) ==
    UNION {{<<i, j>> : j \in {p \in 1..Len(journal[i].postings) :
                                 k \in CarriedKeys(source, [journal[i] EXCEPT !.postings = <<journal[i].postings[p]>>])}} :
              i \in {e \in 1..Len(journal) : journal[e].isTxn}}

\* how many times the invalid reference r lists the entry e
TimesListed(r, e) == Cardinality({j \in 1..Len(ListedIn(r)) : ListedIn(r)[j] = e})

===========================================================================
